---- MODULE Spec2Model ----
(***************************************************************************)
(* Discrete-event simulator of data-link protocols between two machines A  *)
(* and B (PavsTEC/network_simulator).                                      *)
(*                                                                         *)
(* Composition modelled: Simulator (simulation/simulator.py) owning an     *)
(* EventScheduler (heapq), two Machines each with a NetworkLayer, a        *)
(* PhysicalLayer, a DataLinkLayer and one protocol object.  The protocols  *)
(* under protocols/ return response records; the only code that calls      *)
(* them with the argument lists they declare and that carries out their    *)
(* responses is DataLinkLayer (layers/data_link_layer.py).  Machine        *)
(* therefore routes every event kind as Machine.handle_event does, the     *)
(* protocol being reached through the DataLinkLayer coordinator, and the   *)
(* "SEND_FRAME" events the coordinator schedules are carried out by        *)
(* DataLinkLayer.send_frame.  The timer epoch active_timeout_id is the one *)
(* counter that arming increments and that the TIMEOUT branch compares.    *)
(*                                                                         *)
(* Time is counted in tenths of a second (0.1 s = 1).  Payloads are the    *)
(* numbers 1, 2, 3 ... in the order the driver submits them (main.py sends *)
(* str(index)); 0 stands for "no packet" and None for Python's None.       *)
(* Statistics counters that no handler reads are not part of the state.    *)
(***************************************************************************)
EXTENDS Integers, Sequences, FiniteSets, TLC

\* ---- bounds of the model ------------------------------------------------
MaxPayloads == 4
MaxCorrupt == 1
MaxTime == 52
MaxWindow == 2
MaxWall == 4
MaxStops == 1
MaxSends == 2

\* ---- program constants (tenths of a second unless noted) ----------------
SendOffset == 1
DefaultDelay == 5
TimeoutFloor == 30
PARTimeout == 50
SRTimeout == 30
MAX_SEQ == 7
MinWindow == 2
DefaultWindow == 4
DefaultInterval == 20
MaxAllowedWindow == 8

None == -1
NoPacket == 0
NoData == [none |-> TRUE]

Machines == {"A", "B"}
Protocols == {"StopAndWait", "PAR", "SlidingWindow", "GoBackN", "SelectiveRepeat"}
ErrorRates == {0, 50, 100}
Delays == {DefaultDelay}
WindowSizes == MinWindow..MaxWindow
ExternalStamps == {0, 10}

VARIABLES
  protocol,           \* protocol class both machines were registered with
  window_size,        \* Simulator.window_size
  error_rate,         \* PhysicalLayer.error_rate per machine, in percent
  transmission_delay, \* PhysicalLayer.transmission_delay per machine
  current_time,       \* Simulator._current_time
  event_queue,        \* EventScheduler._event_queue (heapq list)
  pending_data,       \* NetworkLayer.pending_data per machine
  received_packets,   \* NetworkLayer.received_packets per machine
  active_timeout_id,  \* timer epoch per machine
  pstate,             \* protocol object's fields per machine
  submitted,          \* history: payloads handed to send_data, per sender
  corruptions,        \* history: frames corrupted so far
  last_dispatch,      \* history: the event handled last and what it caused
  handed_up,          \* history: packets each protocol object passed upwards
  acked,              \* history: ACK frames each protocol object acted upon
  timer_calls,        \* history: start/stop calls on each machine's epoch timer
  armed,              \* history: timeout id |-> timer_calls right after its arming
  fired,              \* history: timeout ids that reached the timeout handler
  retransmitted,      \* history: SEND_FRAME events of the latest timeout handling
  machines,           \* Simulator._machines: the ids registered, in dict order
  running,            \* Simulator._running
  paused,             \* Simulator._paused
  driver,             \* where the loop of main.py stands
  result,             \* what the latest call of the Simulator's interface gave back
  external,           \* history: events scheduled by a caller outside the core
  stopped_with,       \* history: calls of stop_simulation, events pending at the latest
  gui,                \* NetworkSimulatorGUI.paused and the locals of _simulation_loop
  channel,            \* PhysicalLayer.is_paused and frames_sent per machine
  observer,           \* Simulator.gui_callback: whether it is set, what it was told
  probe               \* arguments and value of a helper method called on its own

vars == <<protocol, window_size, error_rate, transmission_delay, current_time,
          event_queue, pending_data, received_packets, active_timeout_id,
          pstate, submitted, corruptions, last_dispatch,
          handed_up, acked, timer_calls, armed, fired, retransmitted,
          machines, running, paused, driver, result, external, stopped_with,
          gui, channel, observer, probe>>

\* what the handlers of events never touch
control == <<machines, running, paused, result, external, stopped_with, gui>>

history == <<handed_up, acked, timer_calls, armed, fired, retransmitted>>

\* the physical layers and the observer of their transmissions, and the helper
\* call, which no event touches
link == <<channel, observer, probe>>

Peer(m) == IF m = "A" THEN "B" ELSE "A"

Max(a, b) == IF a >= b THEN a ELSE b

\* ---- models/frame.py, models/events.py ------------------------------------
Frame(frame_type, seq_num, ack_num, packet) ==
  [type |-> frame_type, seq_num |-> seq_num, ack_num |-> ack_num,
   packet |-> packet, corrupted |-> FALSE]

Event(event_type, timestamp, machine_id, data) ==
  [event_type |-> event_type, timestamp |-> timestamp,
   machine_id |-> machine_id, data |-> data]

Event_lt(self, other) == self.timestamp < other.timestamp

\* ---- simulation/event_scheduler.py: heapq on a Python list ----------------
\* Positions are Python's 0-based indices; heap[pos + 1] is Python's heap[pos].
RECURSIVE siftdown(_, _, _, _)
siftdown(heap, startpos, pos, newitem) ==
  IF pos > startpos
  THEN LET parentpos == (pos - 1) \div 2
           parent == heap[parentpos + 1]
       IN IF Event_lt(newitem, parent)
          THEN siftdown([heap EXCEPT ![pos + 1] = parent], startpos, parentpos, newitem)
          ELSE [heap EXCEPT ![pos + 1] = newitem]
  ELSE [heap EXCEPT ![pos + 1] = newitem]

RECURSIVE siftup_loop(_, _, _, _)
siftup_loop(heap, pos, endpos, newitem) ==
  LET childpos == 2 * pos + 1 IN
  IF childpos < endpos
  THEN LET rightpos == childpos + 1
           c == IF rightpos < endpos /\ ~Event_lt(heap[childpos + 1], heap[rightpos + 1])
                THEN rightpos ELSE childpos
       IN siftup_loop([heap EXCEPT ![pos + 1] = heap[c + 1]], c, endpos, newitem)
  ELSE [heap |-> [heap EXCEPT ![pos + 1] = newitem], pos |-> pos]

siftup(heap, pos) ==
  LET newitem == heap[pos + 1]
      r == siftup_loop(heap, pos, Len(heap), newitem)
  IN siftdown(r.heap, pos, r.pos, newitem)

schedule_event(heap, event) == siftdown(Append(heap, event), 0, Len(heap), event)

\* variant: the last element takes the root's place and is left there
get_next_event_unsifted(heap) ==
  LET lastelt == heap[Len(heap)]
      rest == SubSeq(heap, 1, Len(heap) - 1)
  IN IF rest # <<>>
     THEN [event |-> rest[1], heap |-> [rest EXCEPT ![1] = lastelt]]
     ELSE [event |-> lastelt, heap |-> <<>>]

\* get_next_event on a non-empty queue: the event returned and the queue left
get_next_event(heap) ==
  LET lastelt == heap[Len(heap)]
      rest == SubSeq(heap, 1, Len(heap) - 1)
  IN IF rest # <<>>
     THEN [event |-> rest[1], heap |-> siftup([rest EXCEPT ![1] = lastelt], 0)]
     ELSE [event |-> lastelt, heap |-> <<>>]

peek_next_event(heap) == heap[1]

RECURSIVE schedule_all(_, _)
schedule_all(heap, events) ==
  IF events = <<>> THEN heap
  ELSE schedule_all(schedule_event(heap, Head(events)), Tail(events))

\* ---- layers/network_layer.py -------------------------------------------------
has_data_ready(net) == Len(net) > 0

add_data_to_send(net, data, destination) ==
  Append(net, [data |-> data, destination |-> destination])

get_packet(net) ==
  [packet |-> Head(net).data, destination |-> Head(net).destination, net |-> Tail(net)]

deliver_packet(received, packet) == Append(received, packet)

\* ---- what a protocol handler gives back ----------------------------------------
\* st: the protocol object afterwards; net: the machine's pending_data afterwards;
\* sched: events the handler scheduled itself; response: the record it returned.
NoAction == [action |-> "no_action"]

Result(st, net, sched, response) ==
  [st |-> st, net |-> net, sched |-> sched, response |-> response]

\* ---- protocols/stop_and_wait.py -------------------------------------------------
StopAndWait_InitState ==
  [seq_num |-> 0, expected_seq |-> 0, waiting_for_ack |-> FALSE]

\* variant: the waiting_for_ack test is missing
StopAndWait_handle_network_layer_ready_eager(st, net, m, now) ==
  IF has_data_ready(net)
  THEN LET g == get_packet(net)
           frame == Frame("DATA", st.seq_num, 0, g.packet)
       IN Result([st EXCEPT !.waiting_for_ack = TRUE], g.net, <<>>,
                 [action |-> "send_frame", frame |-> frame,
                  destination |-> g.destination])
  ELSE Result(st, net, <<>>, NoAction)

StopAndWait_handle_network_layer_ready(st, net, m, now) ==
  IF st.waiting_for_ack THEN Result(st, net, <<>>, NoAction)
  ELSE IF has_data_ready(net)
       THEN LET g == get_packet(net)
                frame == Frame("DATA", st.seq_num, 0, g.packet)
            IN Result([st EXCEPT !.waiting_for_ack = TRUE], g.net, <<>>,
                      [action |-> "send_frame", frame |-> frame,
                       destination |-> g.destination])
       ELSE Result(st, net, <<>>, NoAction)

StopAndWait_handle_frame_arrival(st, net, frame) ==
  IF frame.type = "DATA"
  THEN IF frame.seq_num = st.expected_seq
       THEN Result([st EXCEPT !.expected_seq = 1 - st.expected_seq], net, <<>>,
                   [action |-> "deliver_packet_and_send_ack",
                    packet |-> frame.packet, ack_seq |-> frame.seq_num])
       ELSE Result(st, net, <<>>,
                   [action |-> "send_ack_only", ack_seq |-> frame.seq_num])
  ELSE IF frame.type = "ACK"
  THEN IF st.waiting_for_ack /\ frame.ack_num = st.seq_num
       THEN Result([st EXCEPT !.seq_num = 1 - st.seq_num, !.waiting_for_ack = FALSE],
                   net, <<>>, [action |-> "continue_sending"])
       ELSE Result(st, net, <<>>, NoAction)
  ELSE Result(st, net, <<>>, NoAction)

StopAndWait_handle_frame_corruption(st, net, frame) == Result(st, net, <<>>, NoAction)

\* ---- protocols/par.py -----------------------------------------------------------
NoFrame == [type |-> "NONE"]

PAR_InitState ==
  [seq_num |-> 0, expected_seq |-> 0, waiting_for_ack |-> FALSE,
   last_frame_sent |-> NoFrame, last_destination |-> "",
   timeout_duration |-> PARTimeout, timeout_event_scheduled |-> FALSE]

\* _schedule_timeout: the events it schedules and the flag afterwards
PAR_schedule_timeout(st, m, now) ==
  IF ~st.timeout_event_scheduled
  THEN [st |-> [st EXCEPT !.timeout_event_scheduled = TRUE],
        sched |-> <<Event("TIMEOUT", now + st.timeout_duration, m, NoData)>>]
  ELSE [st |-> st, sched |-> <<>>]

PAR_handle_network_layer_ready(st, net, m, now) ==
  IF st.waiting_for_ack THEN Result(st, net, <<>>, NoAction)
  ELSE IF has_data_ready(net)
       THEN LET g == get_packet(net)
                frame == Frame("DATA", st.seq_num, 0, g.packet)
                st1 == [st EXCEPT !.last_frame_sent = frame,
                                  !.last_destination = g.destination,
                                  !.waiting_for_ack = TRUE]
                t == PAR_schedule_timeout(st1, m, now)
            IN Result(t.st, g.net, t.sched,
                      [action |-> "send_frame", frame |-> frame,
                       destination |-> g.destination])
       ELSE Result(st, net, <<>>, NoAction)

PAR_handle_frame_arrival(st, net, frame) ==
  IF frame.type = "DATA"
  THEN IF frame.seq_num = st.expected_seq
       THEN Result([st EXCEPT !.expected_seq = 1 - st.expected_seq], net, <<>>,
                   [action |-> "deliver_packet_and_send_ack",
                    packet |-> frame.packet, ack_seq |-> frame.seq_num])
       ELSE Result(st, net, <<>>,
                   [action |-> "send_nak", nak_seq |-> st.expected_seq])
  ELSE IF frame.type = "ACK"
  THEN IF st.waiting_for_ack /\ frame.ack_num = st.seq_num
       THEN Result([st EXCEPT !.seq_num = 1 - st.seq_num,
                              !.waiting_for_ack = FALSE,
                              !.timeout_event_scheduled = FALSE],
                   net, <<>>, [action |-> "continue_sending"])
       ELSE Result(st, net, <<>>, NoAction)
  ELSE IF frame.type = "NAK"
  THEN IF st.waiting_for_ack
       THEN Result(st, net, <<>>, [action |-> "retransmit"])
       ELSE Result(st, net, <<>>, NoAction)
  ELSE Result(st, net, <<>>, NoAction)

PAR_handle_frame_corruption(st, net, frame) == Result(st, net, <<>>, NoAction)

PAR_handle_timeout(st, net, m, now) ==
  IF st.waiting_for_ack /\ st.last_frame_sent # NoFrame
  THEN LET t == PAR_schedule_timeout(st, m, now)
       IN Result(t.st, net, t.sched,
                 [action |-> "send_frame", frame |-> st.last_frame_sent,
                  destination |-> st.last_destination])
  ELSE Result(st, net, <<>>, NoAction)

\* ---- protocols/sliding_window.py ------------------------------------------------
SlidingWindow_InitState ==
  [next_frame_to_send |-> 0, frame_expected |-> 0, waiting_for_ack |-> FALSE,
   last_packet_sent |-> NoPacket, last_destination |-> ""]

SlidingWindow_handle_network_layer_ready(st, net, m, now) ==
  IF st.waiting_for_ack THEN Result(st, net, <<>>, NoAction)
  ELSE IF has_data_ready(net)
       THEN LET g == get_packet(net)
                piggybacked_ack == 1 - st.frame_expected
                frame == Frame("DATA", st.next_frame_to_send, piggybacked_ack, g.packet)
            IN Result([st EXCEPT !.last_packet_sent = g.packet,
                                 !.last_destination = g.destination,
                                 !.waiting_for_ack = TRUE],
                      g.net, <<>>,
                      [action |-> "send_frame_with_timeout", frame |-> frame,
                       destination |-> g.destination])
       ELSE Result(st, net, <<>>, NoAction)

SlidingWindow_handle_frame_arrival(st, net, frame) ==
  IF frame.type = "DATA"
  THEN LET in_order == frame.seq_num = st.frame_expected
           packet_to_deliver == IF in_order THEN frame.packet ELSE NoPacket
           st1 == IF in_order
                  THEN [st EXCEPT !.frame_expected = 1 - st.frame_expected]
                  ELSE st
           st2 == IF st1.waiting_for_ack /\ frame.ack_num = st1.next_frame_to_send
                  THEN [st1 EXCEPT !.waiting_for_ack = FALSE,
                                   !.next_frame_to_send = 1 - st1.next_frame_to_send]
                  ELSE st1
       IN IF packet_to_deliver # NoPacket
          THEN Result(st2, net, <<>>,
                      [action |-> "deliver_packet_and_send_ack",
                       packet |-> packet_to_deliver, ack_seq |-> frame.seq_num])
          ELSE Result(st2, net, <<>>,
                      [action |-> "send_ack_only", ack_seq |-> 1 - st2.frame_expected])
  ELSE IF frame.type = "ACK"
  THEN IF st.waiting_for_ack /\ frame.ack_num = st.next_frame_to_send
       THEN Result([st EXCEPT !.waiting_for_ack = FALSE,
                              !.next_frame_to_send = 1 - st.next_frame_to_send],
                   net, <<>>, [action |-> "stop_timeout_and_continue"])
       ELSE Result(st, net, <<>>, NoAction)
  ELSE Result(st, net, <<>>, NoAction)

SlidingWindow_handle_frame_corruption(st, net, frame) == Result(st, net, <<>>, NoAction)

\* variant: the frame is sent again without a timer, as PAR does
SlidingWindow_handle_timeout_unarmed(st, net, m, now) ==
  IF st.waiting_for_ack /\ st.last_packet_sent # NoPacket
  THEN LET piggybacked_ack == 1 - st.frame_expected
           frame == Frame("DATA", st.next_frame_to_send, piggybacked_ack, st.last_packet_sent)
       IN Result(st, net, <<>>,
                 [action |-> "send_frame", frame |-> frame,
                  destination |-> st.last_destination])
  ELSE Result(st, net, <<>>, NoAction)

SlidingWindow_handle_timeout(st, net, m, now) ==
  IF st.waiting_for_ack /\ st.last_packet_sent # NoPacket
  THEN LET piggybacked_ack == 1 - st.frame_expected
           frame == Frame("DATA", st.next_frame_to_send, piggybacked_ack, st.last_packet_sent)
       IN Result(st, net, <<>>,
                 [action |-> "send_frame_with_timeout", frame |-> frame,
                  destination |-> st.last_destination])
  ELSE Result(st, net, <<>>, NoAction)

\* ---- Python dict helpers ---------------------------------------------------------
EmptyDict == [k \in {} |-> 0]

DictSet(d, key, value) ==
  [k \in (DOMAIN d) \cup {key} |-> IF k = key THEN value ELSE d[k]]

DictDel(d, key) == [k \in (DOMAIN d) \ {key} |-> d[k]]

\* ---- protocols/go_back_n.py -----------------------------------------------------
GoBackN_InitState ==
  [next_frame_to_send |-> 0, ack_expected |-> 0, nbuffered |-> 0,
   frame_expected |-> 0, buffer |-> EmptyDict]

GoBackN_inc(k) == (k + 1) % (MAX_SEQ + 1)

\* variant: the upper end of the range is included
GoBackN_between_inclusive(a, b, c) ==
  ((a <= b) /\ (b <= c)) \/ ((c < a) /\ (a <= b)) \/ ((b <= c) /\ (c < a))

GoBackN_between(a, b, c) ==
  ((a <= b) /\ (b < c)) \/ ((c < a) /\ (a <= b)) \/ ((b < c) /\ (c < a))

\* variant: > where the code has >=
GoBackN_handle_network_layer_ready_overfull(st, net, m, now) ==
  IF st.nbuffered > MAX_SEQ THEN Result(st, net, <<>>, NoAction)
  ELSE IF has_data_ready(net)
       THEN LET g == get_packet(net)
                piggybacked_ack == (st.frame_expected + MAX_SEQ) % (MAX_SEQ + 1)
                frame == Frame("DATA", st.next_frame_to_send, piggybacked_ack, g.packet)
                st1 == [st EXCEPT
                          !.buffer = DictSet(st.buffer, st.next_frame_to_send,
                                             [packet |-> g.packet,
                                              destination |-> g.destination]),
                          !.nbuffered = st.nbuffered + 1,
                          !.next_frame_to_send = GoBackN_inc(st.next_frame_to_send)]
            IN IF st1.nbuffered = 1
               THEN Result(st1, g.net, <<>>,
                           [action |-> "send_frame_with_timeout", frame |-> frame,
                            destination |-> g.destination])
               ELSE Result(st1, g.net, <<>>,
                           [action |-> "send_frame", frame |-> frame,
                            destination |-> g.destination])
       ELSE Result(st, net, <<>>, NoAction)

GoBackN_handle_network_layer_ready(st, net, m, now) ==
  IF st.nbuffered >= MAX_SEQ THEN Result(st, net, <<>>, NoAction)
  ELSE IF has_data_ready(net)
       THEN LET g == get_packet(net)
                piggybacked_ack == (st.frame_expected + MAX_SEQ) % (MAX_SEQ + 1)
                frame == Frame("DATA", st.next_frame_to_send, piggybacked_ack, g.packet)
                st1 == [st EXCEPT
                          !.buffer = DictSet(st.buffer, st.next_frame_to_send,
                                             [packet |-> g.packet,
                                              destination |-> g.destination]),
                          !.nbuffered = st.nbuffered + 1,
                          !.next_frame_to_send = GoBackN_inc(st.next_frame_to_send)]
            IN IF st1.nbuffered = 1
               THEN Result(st1, g.net, <<>>,
                           [action |-> "send_frame_with_timeout", frame |-> frame,
                            destination |-> g.destination])
               ELSE Result(st1, g.net, <<>>,
                           [action |-> "send_frame", frame |-> frame,
                            destination |-> g.destination])
       ELSE Result(st, net, <<>>, NoAction)

\* the while loop over cumulative ACKs (lines 92-99 and 123-129)
RECURSIVE GoBackN_ack_loop(_, _, _)
GoBackN_ack_loop(st, ack_num, ack_received) ==
  IF GoBackN_between(st.ack_expected, ack_num, st.next_frame_to_send)
  THEN GoBackN_ack_loop(
         [st EXCEPT !.buffer = DictDel(st.buffer, st.ack_expected),
                    !.nbuffered = st.nbuffered - 1,
                    !.ack_expected = GoBackN_inc(st.ack_expected)],
         ack_num, TRUE)
  ELSE [st |-> st, ack_received |-> ack_received]

GoBackN_handle_frame_arrival(st, net, frame) ==
  IF frame.type = "DATA"
  THEN LET in_order == frame.seq_num = st.frame_expected
           packet_to_deliver == IF in_order THEN frame.packet ELSE NoPacket
           st1 == IF in_order
                  THEN [st EXCEPT !.frame_expected = GoBackN_inc(st.frame_expected)]
                  ELSE st
           a == GoBackN_ack_loop(st1, frame.ack_num, FALSE)
       IN IF packet_to_deliver # NoPacket
          THEN Result(a.st, net, <<>>,
                      [action |-> "deliver_packet_and_send_ack",
                       packet |-> packet_to_deliver, ack_seq |-> frame.seq_num,
                       continue |-> a.ack_received /\ a.st.nbuffered < MAX_SEQ])
          ELSE Result(a.st, net, <<>>,
                      [action |-> "send_ack_only",
                       ack_seq |-> (a.st.frame_expected + MAX_SEQ) % (MAX_SEQ + 1)])
  ELSE IF frame.type = "ACK"
  THEN LET a == GoBackN_ack_loop(st, frame.ack_num, FALSE)
       IN IF a.ack_received
          THEN IF a.st.nbuffered = 0
               THEN Result(a.st, net, <<>>, [action |-> "stop_timeout_and_continue"])
               ELSE Result(a.st, net, <<>>, [action |-> "continue_sending"])
          ELSE Result(a.st, net, <<>>, NoAction)
  ELSE Result(st, net, <<>>, NoAction)

GoBackN_handle_frame_corruption(st, net, frame) == Result(st, net, <<>>, NoAction)

\* the for loop of handle_timeout (lines 158-171)
RECURSIVE GoBackN_timeout_loop(_, _, _, _)
GoBackN_timeout_loop(st, i, temp_seq, frames_to_send) ==
  IF i >= st.nbuffered THEN [temp_seq |-> temp_seq, frames |-> frames_to_send]
  ELSE IF temp_seq \in DOMAIN st.buffer
       THEN LET piggybacked_ack == (st.frame_expected + MAX_SEQ) % (MAX_SEQ + 1)
                frame == Frame("DATA", temp_seq, piggybacked_ack, st.buffer[temp_seq].packet)
            IN GoBackN_timeout_loop(st, i + 1, GoBackN_inc(temp_seq),
                 Append(frames_to_send,
                        [frame |-> frame,
                         destination |-> st.buffer[temp_seq].destination,
                         seq |-> temp_seq, use_timeout |-> (i = 0)]))
       ELSE GoBackN_timeout_loop(st, i + 1, temp_seq, frames_to_send)

GoBackN_handle_timeout(st, net, m, now) ==
  IF st.nbuffered > 0
  THEN LET l == GoBackN_timeout_loop(st, 0, st.ack_expected, <<>>)
           st1 == [st EXCEPT !.next_frame_to_send = l.temp_seq]
       IN IF l.frames # <<>>
          THEN Result(st1, net, <<>>,
                      [action |-> "send_multiple_frames", frames |-> l.frames])
          ELSE Result(st1, net, <<>>, NoAction)
  ELSE Result(st, net, <<>>, NoAction)

\* ---- protocols/selective_repeat.py ----------------------------------------------
SelectiveRepeat_InitState(w) ==
  [window_size |-> w, max_seq_num |-> 2 * w,
   send_base |-> 0, next_seq_num |-> 0, send_window |-> EmptyDict,
   rcv_base |-> 0, receive_window |-> EmptyDict,
   timeout_duration |-> SRTimeout, next_timer_id |-> 0,
   active_timers |-> EmptyDict, retransmissions |-> 0]

\* variant: > where the code has >=
SelectiveRepeat_send_window_full_strict(st) ==
  Cardinality(DOMAIN st.send_window) > st.window_size

SelectiveRepeat_send_window_full(st) ==
  Cardinality(DOMAIN st.send_window) >= st.window_size

SelectiveRepeat_send_window_empty(st) == Cardinality(DOMAIN st.send_window) = 0

SelectiveRepeat_in_receive_window(st, seq_num) ==
  LET window_end == (st.rcv_base + st.window_size - 1) % st.max_seq_num
  IN IF st.rcv_base <= window_end
     THEN st.rcv_base <= seq_num /\ seq_num <= window_end
     ELSE seq_num >= st.rcv_base \/ seq_num <= window_end

SelectiveRepeat_already_received(st, seq_num) ==
  IF st.rcv_base = 0
  THEN seq_num > (st.max_seq_num - st.window_size)
  ELSE seq_num < st.rcv_base
       /\ seq_num >= (st.rcv_base - st.window_size) % st.max_seq_num

\* _schedule_timeout: active_timers afterwards and the TIMEOUT event scheduled
SelectiveRepeat_schedule_timeout(st, m, now, seq_num, timer_id) ==
  [st |-> [st EXCEPT !.active_timers = DictSet(st.active_timers, timer_id, seq_num)],
   sched |-> <<Event("TIMEOUT", now + st.timeout_duration, m,
                     [timer_id |-> timer_id])>>]

SelectiveRepeat_cancel_timeout(st, timer_id) ==
  IF timer_id \in DOMAIN st.active_timers
  THEN [st EXCEPT !.active_timers = DictDel(st.active_timers, timer_id)]
  ELSE st

SelectiveRepeat_handle_network_layer_ready(st, net, m, now) ==
  IF SelectiveRepeat_send_window_full(st) THEN Result(st, net, <<>>, NoAction)
  ELSE IF has_data_ready(net)
       THEN LET g == get_packet(net)
                frame == Frame("DATA", st.next_seq_num, 0, g.packet)
                timer_id == st.next_timer_id
                st1 == [st EXCEPT
                          !.next_timer_id = st.next_timer_id + 1,
                          !.send_window = DictSet(st.send_window, st.next_seq_num,
                                                  [frame |-> frame,
                                                   destination |-> g.destination,
                                                   timer_id |-> timer_id])]
                t == SelectiveRepeat_schedule_timeout(st1, m, now, st.next_seq_num, timer_id)
                st2 == [t.st EXCEPT !.next_seq_num = (st.next_seq_num + 1) % st.max_seq_num]
            IN Result(st2, g.net, t.sched,
                      [action |-> "send_frame", frame |-> frame,
                       destination |-> g.destination])
       ELSE Result(st, net, <<>>, NoAction)

\* the while loop flushing buffered frames (lines 124-127)
RECURSIVE SelectiveRepeat_flush(_, _)
SelectiveRepeat_flush(st, packets_to_deliver) ==
  IF st.rcv_base \in DOMAIN st.receive_window
  THEN SelectiveRepeat_flush(
         [st EXCEPT !.receive_window = DictDel(st.receive_window, st.rcv_base),
                    !.rcv_base = (st.rcv_base + 1) % st.max_seq_num],
         Append(packets_to_deliver, st.receive_window[st.rcv_base].packet))
  ELSE [st |-> st, packets |-> packets_to_deliver]

SelectiveRepeat_handle_data_frame(st, net, frame) ==
  LET seq_num == frame.seq_num
      ack_response == [action |-> "send_ack_individual", ack_seq |-> seq_num]
  IN IF SelectiveRepeat_in_receive_window(st, seq_num)
     THEN IF seq_num = st.rcv_base
          THEN LET f == SelectiveRepeat_flush(
                          [st EXCEPT !.rcv_base = (st.rcv_base + 1) % st.max_seq_num],
                          <<frame.packet>>)
               IN Result(f.st, net, <<>>,
                         [action |-> "deliver_packets_and_send_ack",
                          packets |-> f.packets, ack_seq |-> seq_num])
          ELSE Result([st EXCEPT !.receive_window = DictSet(st.receive_window, seq_num, frame)],
                      net, <<>>, ack_response)
     ELSE Result(st, net, <<>>, ack_response)

\* the while loop advancing send_base (lines 170-171)
RECURSIVE SelectiveRepeat_advance_base(_)
SelectiveRepeat_advance_base(st) ==
  IF st.send_base \notin DOMAIN st.send_window /\ ~SelectiveRepeat_send_window_empty(st)
  THEN SelectiveRepeat_advance_base(
         [st EXCEPT !.send_base = (st.send_base + 1) % st.max_seq_num])
  ELSE st

SelectiveRepeat_handle_ack_frame(st, net, frame) ==
  LET ack_seq == frame.ack_num IN
  IF ack_seq \in DOMAIN st.send_window
  THEN LET frame_info == st.send_window[ack_seq]
           st1 == SelectiveRepeat_cancel_timeout(
                    [st EXCEPT !.send_window = DictDel(st.send_window, ack_seq)],
                    frame_info.timer_id)
       IN IF ack_seq = st1.send_base
          THEN LET st2 == SelectiveRepeat_advance_base(st1)
                   st3 == IF SelectiveRepeat_send_window_empty(st2)
                          THEN [st2 EXCEPT !.send_base = st2.next_seq_num]
                          ELSE st2
               IN Result(st3, net, <<>>, [action |-> "continue_sending"])
          ELSE Result(st1, net, <<>>, NoAction)
  ELSE Result(st, net, <<>>, NoAction)

SelectiveRepeat_handle_frame_arrival(st, net, frame) ==
  IF frame.type = "DATA" THEN SelectiveRepeat_handle_data_frame(st, net, frame)
  ELSE IF frame.type = "ACK" THEN SelectiveRepeat_handle_ack_frame(st, net, frame)
  ELSE Result(st, net, <<>>, NoAction)

SelectiveRepeat_handle_frame_corruption(st, net, frame) == Result(st, net, <<>>, NoAction)

SelectiveRepeat_handle_timeout(st, net, m, now) == Result(st, net, <<>>, NoAction)

SelectiveRepeat_handle_timeout_for_frame(st, net, m, now, timer_id) ==
  IF timer_id \in DOMAIN st.active_timers
  THEN LET seq_num == st.active_timers[timer_id]
           st1 == [st EXCEPT !.active_timers = DictDel(st.active_timers, timer_id)]
       IN IF seq_num \in DOMAIN st1.send_window
          THEN LET frame_info == st1.send_window[seq_num]
                   new_timer_id == st1.next_timer_id
                   st2 == [st1 EXCEPT
                             !.retransmissions = st1.retransmissions + 1,
                             !.next_timer_id = st1.next_timer_id + 1,
                             !.send_window = DictSet(st1.send_window, seq_num,
                                               [frame_info EXCEPT !.timer_id = new_timer_id])]
                   t == SelectiveRepeat_schedule_timeout(st2, m, now, seq_num, new_timer_id)
               IN Result(t.st, net, t.sched,
                         [action |-> "send_frame", frame |-> frame_info.frame,
                          destination |-> frame_info.destination])
          ELSE Result(st1, net, <<>>, NoAction)
  ELSE Result(st, net, <<>>, NoAction)

\* ---- protocol classes ------------------------------------------------------------
is_bidirectional(p) == p \in {"SlidingWindow", "GoBackN"}

\* attributes Machine.handle_event probes with hasattr
HasAttr(p, name) ==
  \/ p = "SelectiveRepeat" /\ name \in {"active_timers", "handle_timeout_for_frame"}

Protocol_InitState(p, w) ==
  CASE p = "StopAndWait" -> StopAndWait_InitState
    [] p = "PAR" -> PAR_InitState
    [] p = "SlidingWindow" -> SlidingWindow_InitState
    [] p = "GoBackN" -> GoBackN_InitState
    [] p = "SelectiveRepeat" -> SelectiveRepeat_InitState(w)

Protocol_handle_network_layer_ready(p, st, net, m, now) ==
  CASE p = "StopAndWait" -> StopAndWait_handle_network_layer_ready(st, net, m, now)
    [] p = "PAR" -> PAR_handle_network_layer_ready(st, net, m, now)
    [] p = "SlidingWindow" -> SlidingWindow_handle_network_layer_ready(st, net, m, now)
    [] p = "GoBackN" -> GoBackN_handle_network_layer_ready(st, net, m, now)
    [] p = "SelectiveRepeat" -> SelectiveRepeat_handle_network_layer_ready(st, net, m, now)

Protocol_handle_frame_arrival(p, st, net, frame) ==
  CASE p = "StopAndWait" -> StopAndWait_handle_frame_arrival(st, net, frame)
    [] p = "PAR" -> PAR_handle_frame_arrival(st, net, frame)
    [] p = "SlidingWindow" -> SlidingWindow_handle_frame_arrival(st, net, frame)
    [] p = "GoBackN" -> GoBackN_handle_frame_arrival(st, net, frame)
    [] p = "SelectiveRepeat" -> SelectiveRepeat_handle_frame_arrival(st, net, frame)

Protocol_handle_frame_corruption(p, st, net, frame) ==
  CASE p = "StopAndWait" -> StopAndWait_handle_frame_corruption(st, net, frame)
    [] p = "PAR" -> PAR_handle_frame_corruption(st, net, frame)
    [] p = "SlidingWindow" -> SlidingWindow_handle_frame_corruption(st, net, frame)
    [] p = "GoBackN" -> GoBackN_handle_frame_corruption(st, net, frame)
    [] p = "SelectiveRepeat" -> SelectiveRepeat_handle_frame_corruption(st, net, frame)

Protocol_handle_timeout(p, st, net, m, now) ==
  CASE p = "StopAndWait" -> Result(st, net, <<>>, NoAction)
    [] p = "PAR" -> PAR_handle_timeout(st, net, m, now)
    [] p = "SlidingWindow" -> SlidingWindow_handle_timeout(st, net, m, now)
    [] p = "GoBackN" -> GoBackN_handle_timeout(st, net, m, now)
    [] p = "SelectiveRepeat" -> SelectiveRepeat_handle_timeout(st, net, m, now)

\* ---- layers/data_link_layer.py --------------------------------------------------
DataLink_timeout_duration(delay) == Max(TimeoutFloor, delay * 3)

SendFrameEvent(m, now, frame, destination) ==
  Event("SEND_FRAME", now, m, [frame |-> frame, destination |-> destination])

\* the for loop of 'send_multiple_frames' (lines 160-179)
RECURSIVE DataLink_send_multiple(_, _, _, _, _, _)
DataLink_send_multiple(m, frames, now, atid, timeout_duration, events) ==
  IF frames = <<>> THEN [events |-> events, active_timeout_id |-> atid]
  ELSE LET frame_data == Head(frames)
           send == SendFrameEvent(m, now, frame_data.frame, frame_data.destination)
       IN IF frame_data.use_timeout
          THEN DataLink_send_multiple(m, Tail(frames), now, atid + 1, timeout_duration,
                 events \o <<send, Event("TIMEOUT", now + timeout_duration, m,
                                         [timeout_id |-> atid + 1])>>)
          ELSE DataLink_send_multiple(m, Tail(frames), now, atid, timeout_duration,
                 events \o <<send>>)

RECURSIVE DeliverEvents(_, _, _)
DeliverEvents(m, now, packets) ==
  IF packets = <<>> THEN <<>>
  ELSE <<Event("DELIVER_PACKET", now, m, [packet |-> Head(packets)])>>
       \o DeliverEvents(m, now, Tail(packets))

\* _execute_protocol_response: the events scheduled, in order, and the epoch afterwards
DataLink_execute_protocol_response(m, response, now, atid, timeout_duration) ==
  LET action == response.action
      ready == Event("NETWORK_LAYER_READY", now, m, NoData)
      same(events) == [events |-> events, active_timeout_id |-> atid]
  IN CASE action = "send_frame" ->
            same(<<SendFrameEvent(m, now, response.frame, response.destination)>>)
       [] action = "send_frame_with_timeout" ->
            [events |-> <<SendFrameEvent(m, now, response.frame, response.destination),
                          Event("TIMEOUT", now + timeout_duration, m,
                                [timeout_id |-> atid + 1])>>,
             active_timeout_id |-> atid + 1]
       [] action = "deliver_packet" ->
            same(<<Event("DELIVER_PACKET", now, m, [packet |-> response.packet])>>)
       [] action = "deliver_packet_and_send_ack" ->
            same(<<Event("DELIVER_PACKET", now, m, [packet |-> response.packet]),
                   SendFrameEvent(m, now, Frame("ACK", 0, response.ack_seq, NoPacket), "A")>>
                 \o (IF "continue" \in DOMAIN response /\ response.continue
                     THEN <<ready>> ELSE <<>>))
       [] action = "send_nak" ->
            same(<<SendFrameEvent(m, now, Frame("NAK", 0, response.nak_seq, NoPacket), "A")>>)
       [] action = "send_ack_only" ->
            same(<<SendFrameEvent(m, now, Frame("ACK", 0, response.ack_seq, NoPacket), "A")>>)
       [] action = "continue_sending" -> same(<<ready>>)
       [] action = "stop_timeout_and_continue" ->
            [events |-> <<ready>>, active_timeout_id |-> atid + 1]
       [] action = "retransmit" -> same(<<>>)
       [] action = "send_multiple_frames" ->
            DataLink_send_multiple(m, response.frames, now, atid, timeout_duration, <<>>)
       [] action = "deliver_multiple_packets_and_ack" ->
            same(DeliverEvents(m, now, response.packets)
                 \o <<SendFrameEvent(m, now, Frame("ACK", 0, response.ack_seq, NoPacket), "A")>>
                 \o (IF "continue" \in DOMAIN response /\ response.continue
                     THEN <<ready>> ELSE <<>>))
       [] OTHER -> same(<<>>)

\* ---- layers/physical_layer.py ---------------------------------------------------
\* outcomes of random.random() < error_rate
CorruptionOutcomes(m) ==
  IF error_rate[m] = 0 THEN {FALSE}
  ELSE IF error_rate[m] = 100 THEN {TRUE}
  ELSE IF corruptions < MaxCorrupt THEN {TRUE, FALSE} ELSE {FALSE}

\* variant: the delay is subtracted
PhysicalLayer_send_frame_backdated(m, frame, destination_id, now, is_corrupted) ==
  LET arrival_time == now - transmission_delay[m]
  IN IF is_corrupted
     THEN Event("CKSUM_ERR", arrival_time, destination_id, frame)
     ELSE Event("FRAME_ARRIVAL", arrival_time, destination_id, frame)

PhysicalLayer_send_frame(m, frame, destination_id, now, is_corrupted) ==
  LET arrival_time == now + transmission_delay[m]
  IN IF is_corrupted
     THEN Event("CKSUM_ERR", arrival_time, destination_id, frame)
     ELSE Event("FRAME_ARRIVAL", arrival_time, destination_id, frame)

\* ---- simulation/simulator.py and simulation/machine.py ----------------------------
config == <<protocol, window_size, error_rate, transmission_delay>>

NoEvent == Event("NONE", 0, "", NoData)

\* result before any call; tick is history and flips at every call, from is the
\* machine_id or the from_machine of the call
NoResult ==
  [op |-> "none", from |-> "", to |-> "", error_rate |-> None,
   transmission_delay |-> None, value |-> "none", tick |-> 0]

\* _simulation_loop before its first turn; times are counted from start_time, and
\* None stands for the 0.0 that marks "no pause noted" in last_pause_time.
\* unpaused is history: the time that has passed while self.paused was false.
GuiInit ==
  [paused |-> FALSE, pc |-> "top", wall |-> 0, real_time |-> 0,
   last_pause_time |-> None, total_paused_time |-> 0,
   next_send_time_a |-> 0, next_send_time_b |-> DefaultInterval \div 2,
   unpaused |-> 0]

NoDispatch ==
  [event |-> NoEvent, invoked |-> FALSE, response |-> "none", scheduled |-> <<>>]

\* PhysicalLayer.__init__: not paused, nothing sent; refused is history, the
\* frames send_frame returned on without sending
ChannelInit ==
  [m \in Machines |-> [is_paused |-> FALSE, frames_sent |-> 0, refused |-> 0]]

\* Simulator.__init__(gui_callback): the callback and the calls made to it so far
ObserverInit(gui_callback) ==
  [gui_callback |-> gui_callback, packet_sent |-> 0, packet_delivered |-> 0]

\* no helper method has been called on its own
NoProbe == [a |-> 0, b |-> 0, c |-> 0, applied |-> FALSE, value |-> FALSE]

Init ==
  /\ protocol \in Protocols
  /\ window_size \in IF protocol \in {"GoBackN", "SelectiveRepeat"}
                      THEN WindowSizes ELSE {DefaultWindow}
  /\ \E r \in ErrorRates : error_rate = [m \in Machines |-> r]
  /\ transmission_delay \in [Machines -> Delays]
  /\ current_time = 0
  /\ event_queue = <<>>
  /\ pending_data = [m \in Machines |-> <<>>]
  /\ received_packets = [m \in Machines |-> <<>>]
  /\ active_timeout_id = [m \in Machines |-> 0]
  /\ pstate = [m \in Machines |-> Protocol_InitState(protocol, window_size)]
  /\ submitted = [m \in Machines |-> <<>>]
  /\ corruptions = 0
  /\ last_dispatch = NoDispatch
  /\ handed_up = [m \in Machines |-> <<>>]
  /\ acked = [m \in Machines |-> 0]
  /\ timer_calls = [m \in Machines |-> 0]
  /\ armed = [m \in Machines |-> EmptyDict]
  /\ fired = [m \in Machines |-> {}]
  /\ retransmitted = [m \in Machines |-> <<>>]
  /\ machines = <<"A", "B">>
  /\ running = TRUE
  /\ paused = FALSE
  /\ driver = "top"
  /\ result = NoResult
  /\ external = 0
  /\ stopped_with = [calls |-> 0, events |-> <<>>]
  /\ gui = GuiInit
  /\ channel = ChannelInit
  /\ observer = ObserverInit(FALSE)
  /\ probe = NoProbe

\* run_simulation and run_simulation_step return to the driver only when no event
\* that is due at the current time is left
BetweenInstants ==
  IF event_queue = <<>> THEN TRUE
  ELSE peek_next_event(event_queue).timestamp > current_time

\* calls of send_data and schedule_event made so far by the Simulator's callers
Calls == Len(submitted.A) + Len(submitted.B) + external

\* Simulator.send_data(from_machine, Peer(from_machine), data) with both machines
\* registered; the callers number the payloads per sender.
Simulator_send_data(from_machine) ==
  /\ LET data == Len(submitted[from_machine]) + 1
     IN /\ pending_data' = [pending_data EXCEPT ![from_machine] =
                              add_data_to_send(@, data, Peer(from_machine))]
        /\ submitted' = [submitted EXCEPT ![from_machine] = Append(@, data)]
  /\ event_queue' = schedule_event(event_queue,
                      Event("NETWORK_LAYER_READY", current_time + SendOffset,
                            from_machine, NoData))

\* a driver's call of send_data, between two runs of the loop
send_data(from_machine) ==
  /\ BetweenInstants
  /\ Calls < MaxPayloads
  /\ Simulator_send_data(from_machine)
  /\ UNCHANGED <<config, current_time, received_packets, active_timeout_id,
                 pstate, corruptions, last_dispatch, history, control, driver, link>>

\* the drivers' send loop: A sends every interval, and for a bidirectional
\* protocol B sends half an interval after A, so the senders take turns, A first
DriverTurn(from_machine) ==
  IF is_bidirectional(protocol)
  THEN IF from_machine = "A" THEN Len(submitted.A) = Len(submitted.B)
       ELSE Len(submitted.B) < Len(submitted.A)
  ELSE from_machine = "A"

SendData(from_machine) ==
  /\ DriverTurn(from_machine)
  /\ send_data(from_machine)

\* a caller of the Simulator other than the two drivers' loops: the senders
\* need not take turns
SendDataAnyOrder(from_machine) ==
  /\ from_machine = "A" \/ is_bidirectional(protocol)
  /\ send_data(from_machine)

\* run_simulation, one turn of its loop: the event taken and the queue left
Popped == get_next_event(event_queue)

\* the loop of run_simulation goes on while events are left; when none is left
\* the call returns and the driver is at the top of its own loop again
RunLoop == driver' = IF event_queue' = <<>> THEN "top" ELSE "run"

\* machine_id in self._machines
IsRegistered(machine_id) == \E i \in DOMAIN machines : machines[i] = machine_id

\* while self._running and self.event_scheduler.has_events() and not self._paused,
\* and the event's machine is in the registry
CanDispatch(event_type) ==
  /\ running /\ ~paused
  /\ event_queue # <<>>
  /\ IsRegistered(Popped.event.machine_id)
  /\ Popped.event.event_type = event_type
  /\ Popped.event.timestamp <= MaxTime

\* variant: an event without an id counts as epoch 0
Machine_timeout_id_default(event) ==
  IF "timeout_id" \in DOMAIN event.data THEN event.data.timeout_id ELSE 0

\* timeout_id = event.data.get('timeout_id') if event.data else None
Machine_timeout_id(event) ==
  IF "timeout_id" \in DOMAIN event.data THEN event.data.timeout_id ELSE None

\* history bookkeeping: packets a response passes upwards
ResponsePackets(response) ==
  IF response.action \in {"deliver_packet", "deliver_packet_and_send_ack"}
  THEN <<response.packet>>
  ELSE IF response.action \in {"deliver_packets_and_send_ack",
                               "deliver_multiple_packets_and_ack"}
       THEN response.packets
       ELSE <<>>

IsSendFrame(e) == e.event_type = "SEND_FRAME"

\* history bookkeeping: the epoch-timer armings among the events of one response
IsArming(e) == e.event_type = "TIMEOUT" /\ "timeout_id" \in DOMAIN e.data

Armings(events) == SelectSeq(events, IsArming)

TimerCalls(response, events) ==
  Len(Armings(events)) + (IF response.action = "stop_timeout_and_continue" THEN 1 ELSE 0)

RECURSIVE Arm(_, _, _)
Arm(d, armings, calls) ==
  IF armings = <<>> THEN d
  ELSE Arm(DictSet(d, Head(armings).data.timeout_id, calls + 1), Tail(armings), calls + 1)

\* the protocol's result r carried out by the data-link coordinator; now is
\* simulator.get_current_time()
Handled(m, event, now, r) ==
  LET x == DataLink_execute_protocol_response(m, r.response, now,
             active_timeout_id[m], DataLink_timeout_duration(transmission_delay[m]))
      scheduled == r.sched \o x.events
  IN /\ pstate' = [pstate EXCEPT ![m] = r.st]
     /\ pending_data' = [pending_data EXCEPT ![m] = r.net]
     /\ active_timeout_id' = [active_timeout_id EXCEPT ![m] = x.active_timeout_id]
     /\ event_queue' = schedule_all(Popped.heap, scheduled)
     /\ last_dispatch' = [event |-> event, invoked |-> TRUE,
                          response |-> r.response.action, scheduled |-> scheduled]
     /\ handed_up' = [handed_up EXCEPT ![m] = @ \o ResponsePackets(r.response)]
     /\ acked' = [acked EXCEPT ![m] =
                    IF event.event_type = "FRAME_ARRIVAL" /\ event.data.type = "ACK"
                       /\ r.st # pstate[m]
                    THEN @ + 1 ELSE @]
     /\ timer_calls' = [timer_calls EXCEPT ![m] = @ + TimerCalls(r.response, x.events)]
     /\ armed' = [armed EXCEPT ![m] = Arm(@, Armings(x.events), timer_calls[m])]
     /\ fired' = [fired EXCEPT ![m] =
                    IF event.event_type = "TIMEOUT"
                    THEN @ \cup {Machine_timeout_id(event)} ELSE @]
     /\ retransmitted' = [retransmitted EXCEPT ![m] =
                            IF event.event_type = "TIMEOUT"
                            THEN SelectSeq(scheduled, IsSendFrame) ELSE @]
     /\ UNCHANGED link

\* the event is taken from the queue and nothing else happens
Dropped(event) ==
  /\ event_queue' = Popped.heap
  /\ last_dispatch' = [NoDispatch EXCEPT !.event = event]
  /\ UNCHANGED <<pstate, pending_data, active_timeout_id, history, link>>

\* Machine.handle_event, one definition per branch; event is the event just taken
\* from the queue and now the Simulator's clock
HandleNetworkReady(event, now) ==
  LET m == event.machine_id
  IN /\ Handled(m, event, now, Protocol_handle_network_layer_ready(
                   protocol, pstate[m], pending_data[m], m, now))
     /\ UNCHANGED <<received_packets, corruptions>>

HandleFrameArrival(event, now) ==
  LET m == event.machine_id
  IN /\ Handled(m, event, now, Protocol_handle_frame_arrival(
                   protocol, pstate[m], pending_data[m], event.data))
     /\ UNCHANGED <<received_packets, corruptions>>

HandleCksumErr(event, now) ==
  LET m == event.machine_id
  IN /\ Handled(m, event, now, Protocol_handle_frame_corruption(
                   protocol, pstate[m], pending_data[m], event.data))
     /\ UNCHANGED <<received_packets, corruptions>>

HandleDeliverPacket(event, now) ==
  LET m == event.machine_id
  IN /\ received_packets' = [received_packets EXCEPT ![m] =
                               deliver_packet(@, event.data.packet)]
     /\ Dropped(event)
     /\ UNCHANGED corruptions

\* variant: the pause flag is not looked at
PhysicalLayer_refuses_never(m) == FALSE

\* PhysicalLayer.send_frame, "if self.is_paused: return"
PhysicalLayer_refuses(m) == channel[m].is_paused

\* DataLinkLayer.send_frame: the frame goes to the machine's physical layer, which
\* drops it when paused and otherwise counts it, tells the observer if there is
\* one, and schedules its arrival
HandleSendFrame(event, now) ==
  LET m == event.machine_id
  IN /\ IF PhysicalLayer_refuses(m)
        THEN /\ event_queue' = Popped.heap
             /\ last_dispatch' = [NoDispatch EXCEPT !.event = event]
             /\ channel' = [channel EXCEPT ![m].refused = @ + 1]
             /\ UNCHANGED <<corruptions, observer>>
        ELSE /\ \E is_corrupted \in CorruptionOutcomes(m) :
                  LET arrival == PhysicalLayer_send_frame(m, event.data.frame,
                                   event.data.destination, now, is_corrupted)
                  IN /\ event_queue' = schedule_event(Popped.heap, arrival)
                     /\ corruptions' = IF is_corrupted /\ error_rate[m] < 100
                                       THEN corruptions + 1 ELSE corruptions
                     /\ last_dispatch' = [NoDispatch EXCEPT !.event = event,
                                                            !.scheduled = <<arrival>>]
             /\ channel' = [channel EXCEPT ![m].frames_sent = @ + 1]
             /\ observer' = IF observer.gui_callback
                            THEN [observer EXCEPT !.packet_sent = @ + 1]
                            ELSE observer
     /\ UNCHANGED <<pending_data, received_packets, active_timeout_id, pstate,
                    history, probe>>

\* Machine.handle_event, TIMEOUT branch (lines 48-60)
Machine_individual_timers(p) ==
  HasAttr(p, "handle_timeout_with_id") /\ HasAttr(p, "active_timers")

\* variant: the epoch comparison is missing
Machine_timeout_fires_any_epoch(p, st, atid, event) ==
  IF Machine_individual_timers(p)
  THEN Machine_timeout_id(event) \in DOMAIN st.active_timers
  ELSE TRUE

Machine_timeout_fires(p, st, atid, event) ==
  IF Machine_individual_timers(p)
  THEN Machine_timeout_id(event) \in DOMAIN st.active_timers
  ELSE Machine_timeout_id(event) = atid

HandleTimeout(event, now) ==
  LET m == event.machine_id
  IN /\ IF Machine_timeout_fires(protocol, pstate[m], active_timeout_id[m], event)
        THEN IF Machine_individual_timers(protocol)
             THEN Handled(m, event, now, SelectiveRepeat_handle_timeout_for_frame(
                            pstate[m], pending_data[m], m, now,
                            Machine_timeout_id(event)))
             ELSE Handled(m, event, now, Protocol_handle_timeout(
                            protocol, pstate[m], pending_data[m], m, now))
        ELSE Dropped(event)
     /\ UNCHANGED <<received_packets, corruptions>>

\* else branch: an event type no branch recognises
HandleUnrecognised(event, now) ==
  /\ Dropped(event)
  /\ UNCHANGED <<received_packets, corruptions>>

\* run_simulation, one turn of its loop for each kind of event: the clock is set
\* to the event's timestamp and the machine handles the event
DispatchNetworkReady ==
  /\ CanDispatch("NETWORK_LAYER_READY")
  /\ current_time' = Popped.event.timestamp
  /\ HandleNetworkReady(Popped.event, Popped.event.timestamp)
  /\ RunLoop
  /\ UNCHANGED <<config, submitted, control>>

DispatchFrameArrival ==
  /\ CanDispatch("FRAME_ARRIVAL")
  /\ current_time' = Popped.event.timestamp
  /\ HandleFrameArrival(Popped.event, Popped.event.timestamp)
  /\ RunLoop
  /\ UNCHANGED <<config, submitted, control>>

DispatchCksumErr ==
  /\ CanDispatch("CKSUM_ERR")
  /\ current_time' = Popped.event.timestamp
  /\ HandleCksumErr(Popped.event, Popped.event.timestamp)
  /\ RunLoop
  /\ UNCHANGED <<config, submitted, control>>

DispatchDeliverPacket ==
  /\ CanDispatch("DELIVER_PACKET")
  /\ current_time' = Popped.event.timestamp
  /\ HandleDeliverPacket(Popped.event, Popped.event.timestamp)
  /\ RunLoop
  /\ UNCHANGED <<config, submitted, control>>

DispatchSendFrame ==
  /\ CanDispatch("SEND_FRAME")
  /\ current_time' = Popped.event.timestamp
  /\ HandleSendFrame(Popped.event, Popped.event.timestamp)
  /\ RunLoop
  /\ UNCHANGED <<config, submitted, control>>

DispatchTimeout ==
  /\ CanDispatch("TIMEOUT")
  /\ current_time' = Popped.event.timestamp
  /\ HandleTimeout(Popped.event, Popped.event.timestamp)
  /\ RunLoop
  /\ UNCHANGED <<config, submitted, control>>

Next ==
  \/ \E from_machine \in Machines : SendData(from_machine)
  \/ DispatchNetworkReady
  \/ DispatchFrameArrival
  \/ DispatchCksumErr
  \/ DispatchDeliverPacket
  \/ DispatchSendFrame
  \/ DispatchTimeout

Spec == Init /\ [][Next]_vars

NextAnyOrder ==
  \/ \E from_machine \in Machines : SendDataAnyOrder(from_machine)
  \/ DispatchNetworkReady
  \/ DispatchFrameArrival
  \/ DispatchCksumErr
  \/ DispatchDeliverPacket
  \/ DispatchSendFrame
  \/ DispatchTimeout

SpecAnyOrder == Init /\ [][NextAnyOrder]_vars

\* ---- a caller that schedules events of its own -----------------------------------
\* Simulator.schedule_event(Event(EventType.ACK_TIMEOUT, timestamp, machine_id,
\* data)) called from outside the core, between two runs of the loop; the data
\* numbers the caller's events in the order of the calls
ScheduleEvent(machine_id, timestamp) ==
  /\ BetweenInstants
  /\ Calls < MaxPayloads
  /\ external' = external + 1
  /\ event_queue' = schedule_event(event_queue,
                      Event("ACK_TIMEOUT", timestamp, machine_id,
                            [serial |-> external + 1]))
  /\ UNCHANGED <<config, current_time, pending_data, received_packets,
                 active_timeout_id, pstate, submitted, corruptions, last_dispatch,
                 history, machines, running, paused, driver, result,
                 stopped_with, gui, link>>

DispatchUnrecognised ==
  /\ CanDispatch("ACK_TIMEOUT")
  /\ current_time' = Popped.event.timestamp
  /\ HandleUnrecognised(Popped.event, Popped.event.timestamp)
  /\ RunLoop
  /\ UNCHANGED <<config, submitted, control>>

NextExternal ==
  \/ Next
  \/ \E machine_id \in Machines, timestamp \in ExternalStamps :
       ScheduleEvent(machine_id, timestamp)
  \/ DispatchUnrecognised

SpecExternal == Init /\ [][NextExternal]_vars

\* ---- events for a machine that is not registered -----------------------------------
\* kinds of event a caller schedules for the id "C", which is never registered
UnknownKinds == {"NETWORK_LAYER_READY", "TIMEOUT"}

\* Simulator.schedule_event(Event(event_type, timestamp, "C")) called from outside
\* the core, between two runs of the loop
ScheduleUnknown(event_type, timestamp) ==
  /\ BetweenInstants
  /\ Calls < MaxSends
  /\ external' = external + 1
  /\ event_queue' = schedule_event(event_queue,
                      Event(event_type, timestamp, "C", NoData))
  /\ UNCHANGED <<config, current_time, pending_data, received_packets,
                 active_timeout_id, pstate, submitted, corruptions, last_dispatch,
                 history, machines, running, paused, driver, result,
                 stopped_with, gui, link>>

\* variant: the registry is indexed without the test, the KeyError ends the run
DispatchUnknownMachineKeyError ==
  /\ running /\ ~paused
  /\ event_queue # <<>>
  /\ ~IsRegistered(Popped.event.machine_id)
  /\ Popped.event.timestamp <= MaxTime
  /\ current_time' = Popped.event.timestamp
  /\ Dropped(Popped.event)
  /\ driver' = "top"
  /\ UNCHANGED <<config, submitted, control, received_packets, corruptions>>

\* run_simulation, one turn of its loop, else branch of
\* "if event.machine_id in self._machines": the event is reported and the loop
\* goes on
DispatchUnknownMachine ==
  /\ running /\ ~paused
  /\ event_queue # <<>>
  /\ ~IsRegistered(Popped.event.machine_id)
  /\ Popped.event.timestamp <= MaxTime
  /\ current_time' = Popped.event.timestamp
  /\ Dropped(Popped.event)
  /\ RunLoop
  /\ UNCHANGED <<config, submitted, control, received_packets, corruptions>>

NextUnknown ==
  \/ \E from_machine \in Machines : Calls < MaxSends /\ SendData(from_machine)
  \/ \E event_type \in UnknownKinds, timestamp \in ExternalStamps :
       ScheduleUnknown(event_type, timestamp)
  \/ DispatchUnknownMachine
  \/ DispatchNetworkReady
  \/ DispatchFrameArrival
  \/ DispatchCksumErr
  \/ DispatchDeliverPacket
  \/ DispatchSendFrame
  \/ DispatchTimeout

SpecUnknown == Init /\ [][NextUnknown]_vars

\* ---- frames put on the queue by a caller ----------------------------------------------
\* sequence numbers of the frames a caller lets arrive
ArrivingSeqs == {0, 1}

\* calls of send_data and schedule_event together
MaxArrivals == MaxSends + 1

\* kinds of frame a caller lets arrive
ArrivingTypes == {"DATA", "ACK"}

\* the frame as the sending side builds it: a DATA frame carries seq_num and a
\* packet, an ACK frame is Frame("ACK", 0, seq_num)
ArrivingFrame(frame_type, seq_num, packet) ==
  IF frame_type = "DATA"
  THEN Frame("DATA", seq_num, 0, packet)
  ELSE Frame("ACK", 0, seq_num, NoPacket)

\* Simulator.schedule_event(Event(EventType.FRAME_ARRIVAL, timestamp, machine_id,
\* frame)) called from outside the core, between two runs of the loop: a valid
\* frame arrives at the machine whatever its peer has sent
ScheduleArrival(machine_id, frame_type, seq_num, timestamp) ==
  /\ BetweenInstants
  /\ Calls < MaxArrivals
  /\ external' = external + 1
  /\ event_queue' = schedule_event(event_queue,
                      Event("FRAME_ARRIVAL", timestamp, machine_id,
                            ArrivingFrame(frame_type, seq_num, external + 1)))
  /\ UNCHANGED <<config, current_time, pending_data, received_packets,
                 active_timeout_id, pstate, submitted, corruptions, last_dispatch,
                 history, machines, running, paused, driver, result,
                 stopped_with, gui, link>>

NextArrival ==
  \/ \E from_machine \in Machines : Calls < MaxArrivals /\ SendData(from_machine)
  \/ \E machine_id \in Machines, frame_type \in ArrivingTypes,
        seq_num \in ArrivingSeqs, timestamp \in ExternalStamps :
       ScheduleArrival(machine_id, frame_type, seq_num, timestamp)
  \/ DispatchNetworkReady
  \/ DispatchFrameArrival
  \/ DispatchCksumErr
  \/ DispatchDeliverPacket
  \/ DispatchSendFrame
  \/ DispatchTimeout

SpecArrival == Init /\ [][NextArrival]_vars

\* ---- pausing one machine's physical layer, with an observer set ---------------------
\* error rates of the two machines: no frame or every frame is corrupted
ObservedRates == {0, 100}

\* Simulator(gui_callback=...) with both machines registered
InitObserved ==
  /\ protocol \in Protocols
  /\ window_size \in IF protocol \in {"GoBackN", "SelectiveRepeat"}
                      THEN WindowSizes ELSE {DefaultWindow}
  /\ \E r \in ObservedRates : error_rate = [m \in Machines |-> r]
  /\ transmission_delay \in [Machines -> Delays]
  /\ current_time = 0
  /\ event_queue = <<>>
  /\ pending_data = [m \in Machines |-> <<>>]
  /\ received_packets = [m \in Machines |-> <<>>]
  /\ active_timeout_id = [m \in Machines |-> 0]
  /\ pstate = [m \in Machines |-> Protocol_InitState(protocol, window_size)]
  /\ submitted = [m \in Machines |-> <<>>]
  /\ corruptions = 0
  /\ last_dispatch = NoDispatch
  /\ handed_up = [m \in Machines |-> <<>>]
  /\ acked = [m \in Machines |-> 0]
  /\ timer_calls = [m \in Machines |-> 0]
  /\ armed = [m \in Machines |-> EmptyDict]
  /\ fired = [m \in Machines |-> {}]
  /\ retransmitted = [m \in Machines |-> <<>>]
  /\ machines = <<"A", "B">>
  /\ running = TRUE
  /\ paused = FALSE
  /\ driver = "top"
  /\ result = NoResult
  /\ external = 0
  /\ stopped_with = [calls |-> 0, events |-> <<>>]
  /\ gui = GuiInit
  /\ channel = ChannelInit
  /\ observer = ObserverInit(TRUE)
  /\ probe = NoProbe

\* Simulator.pause_machine -> Machine.pause -> PhysicalLayer.pause, called
\* between two runs of the loop
pause_machine(machine_id) ==
  /\ BetweenInstants
  /\ IsRegistered(machine_id)
  /\ ~channel[machine_id].is_paused
  /\ channel' = [channel EXCEPT ![machine_id].is_paused = TRUE]
  /\ UNCHANGED <<config, current_time, event_queue, pending_data, received_packets,
                 active_timeout_id, pstate, submitted, corruptions, last_dispatch,
                 history, control, driver, observer, probe>>

\* Simulator.resume_machine -> Machine.resume -> PhysicalLayer.resume
resume_machine(machine_id) ==
  /\ BetweenInstants
  /\ IsRegistered(machine_id)
  /\ channel[machine_id].is_paused
  /\ channel' = [channel EXCEPT ![machine_id].is_paused = FALSE]
  /\ UNCHANGED <<config, current_time, event_queue, pending_data, received_packets,
                 active_timeout_id, pstate, submitted, corruptions, last_dispatch,
                 history, control, driver, observer, probe>>

NextChannel ==
  \/ \E from_machine \in Machines : Calls < MaxSends /\ SendData(from_machine)
  \/ \E machine_id \in Machines : pause_machine(machine_id)
  \/ \E machine_id \in Machines : resume_machine(machine_id)
  \/ DispatchNetworkReady
  \/ DispatchFrameArrival
  \/ DispatchCksumErr
  \/ DispatchDeliverPacket
  \/ DispatchSendFrame
  \/ DispatchTimeout

SpecChannel == InitObserved /\ [][NextChannel]_vars

\* ---- machines registered with different transmission delays ---------------------------
\* transmission delays a machine is registered with, in ticks of 0.1 s: the default
\* of add_machine and one as long as the shortest timeout
ConfiguredDelays == {DefaultDelay, TimeoutFloor}

\* Simulator.add_machine called for "A" and "B" with a delay each and one error
\* rate, no frame or every frame corrupted; then start_simulation
InitDelays ==
  /\ protocol \in Protocols
  /\ window_size \in IF protocol \in {"GoBackN", "SelectiveRepeat"}
                      THEN WindowSizes ELSE {DefaultWindow}
  /\ \E r \in ObservedRates : error_rate = [m \in Machines |-> r]
  /\ transmission_delay \in [Machines -> ConfiguredDelays]
  /\ current_time = 0
  /\ event_queue = <<>>
  /\ pending_data = [m \in Machines |-> <<>>]
  /\ received_packets = [m \in Machines |-> <<>>]
  /\ active_timeout_id = [m \in Machines |-> 0]
  /\ pstate = [m \in Machines |-> Protocol_InitState(protocol, window_size)]
  /\ submitted = [m \in Machines |-> <<>>]
  /\ corruptions = 0
  /\ last_dispatch = NoDispatch
  /\ handed_up = [m \in Machines |-> <<>>]
  /\ acked = [m \in Machines |-> 0]
  /\ timer_calls = [m \in Machines |-> 0]
  /\ armed = [m \in Machines |-> EmptyDict]
  /\ fired = [m \in Machines |-> {}]
  /\ retransmitted = [m \in Machines |-> <<>>]
  /\ machines = <<"A", "B">>
  /\ running = TRUE
  /\ paused = FALSE
  /\ driver = "top"
  /\ result = NoResult
  /\ external = 0
  /\ stopped_with = [calls |-> 0, events |-> <<>>]
  /\ gui = GuiInit
  /\ channel = ChannelInit
  /\ observer = ObserverInit(FALSE)
  /\ probe = NoProbe

NextDelays ==
  \/ \E from_machine \in Machines : Calls < MaxSends /\ SendData(from_machine)
  \/ DispatchNetworkReady
  \/ DispatchFrameArrival
  \/ DispatchCksumErr
  \/ DispatchDeliverPacket
  \/ DispatchSendFrame
  \/ DispatchTimeout

SpecDelays == InitDelays /\ [][NextDelays]_vars

\* ---- stopping and starting again -------------------------------------------------
\* Simulator.stop_simulation
stop_simulation ==
  /\ running
  /\ stopped_with.calls < MaxStops
  /\ running' = FALSE
  /\ stopped_with' = [calls |-> stopped_with.calls + 1, events |-> event_queue]
  /\ UNCHANGED <<config, current_time, event_queue, pending_data, received_packets,
                 active_timeout_id, pstate, submitted, corruptions, last_dispatch,
                 history, machines, paused, driver, result, external, gui, link>>

\* for machine in self._machines.values(): machine.start(self)
RECURSIVE Machine_start(_, _, _)
Machine_start(heap, ids, now) ==
  IF ids = <<>> THEN heap
  ELSE Machine_start(
         IF has_data_ready(pending_data[Head(ids)])
         THEN schedule_event(heap, Event("NETWORK_LAYER_READY", now + SendOffset,
                                         Head(ids), NoData))
         ELSE heap,
         Tail(ids), now)

\* Simulator.start_simulation
start_simulation ==
  /\ ~running
  /\ event_queue' = Machine_start(event_queue, machines, current_time)
  /\ running' = TRUE
  /\ UNCHANGED <<config, current_time, pending_data, received_packets,
                 active_timeout_id, pstate, submitted, corruptions, last_dispatch,
                 history, machines, paused, driver, result, external, stopped_with,
                 gui, link>>

NextStop ==
  \/ \E from_machine \in Machines : Calls < MaxArrivals /\ SendData(from_machine)
  \/ DispatchNetworkReady
  \/ DispatchFrameArrival
  \/ DispatchCksumErr
  \/ DispatchDeliverPacket
  \/ DispatchSendFrame
  \/ DispatchTimeout
  \/ stop_simulation
  \/ start_simulation

SpecStop == Init /\ [][NextStop]_vars

\* ---- registration and submission through the Simulator's interface ---------------
\* ids a caller may name; "C" is never registered
Ids == Machines \cup {"C"}

\* error rates (percent) and delays handed to add_machine, valid and invalid
RegistrationRates == {-10, 50, 150}
RegistrationDelays == {-10, DefaultDelay}

\* window sizes handed to Simulator(window_size=...): below, in and above the
\* range the drivers ask for
SimulatorWindows == {MinWindow - 1, MinWindow, MaxAllowedWindow + 1}

\* Simulator.__init__: no machine registered, not running; None stands for the
\* configuration of a machine that does not exist
InitConstructed ==
  /\ protocol \in Protocols
  /\ window_size \in IF protocol \in {"GoBackN", "SelectiveRepeat"}
                      THEN SimulatorWindows ELSE {DefaultWindow}
  /\ error_rate = [m \in Machines |-> None]
  /\ transmission_delay = [m \in Machines |-> None]
  /\ current_time = 0
  /\ event_queue = <<>>
  /\ pending_data = [m \in Machines |-> <<>>]
  /\ received_packets = [m \in Machines |-> <<>>]
  /\ active_timeout_id = [m \in Machines |-> 0]
  /\ pstate = [m \in Machines |-> Protocol_InitState(protocol, window_size)]
  /\ submitted = [m \in Machines |-> <<>>]
  /\ corruptions = 0
  /\ last_dispatch = NoDispatch
  /\ handed_up = [m \in Machines |-> <<>>]
  /\ acked = [m \in Machines |-> 0]
  /\ timer_calls = [m \in Machines |-> 0]
  /\ armed = [m \in Machines |-> EmptyDict]
  /\ fired = [m \in Machines |-> {}]
  /\ retransmitted = [m \in Machines |-> <<>>]
  /\ machines = <<>>
  /\ running = FALSE
  /\ paused = FALSE
  /\ driver = "top"
  /\ result = NoResult
  /\ external = 0
  /\ stopped_with = [calls |-> 0, events |-> <<>>]
  /\ gui = GuiInit
  /\ channel = ChannelInit
  /\ observer = ObserverInit(FALSE)
  /\ probe = NoProbe

\* PhysicalLayer.__init__: the exception its validations raise, "none" if none
PhysicalLayer_init(rate, delay) ==
  IF ~(0 <= rate /\ rate <= 100) THEN "ValueError"
  ELSE IF delay < 0 THEN "ValueError"
  ELSE "none"

\* Machine.__init__ called by add_machine: the physical layer is built first, then
\* the protocol object; GoBackNProtocol.__init__ takes no window_size keyword
Machine_init(rate, delay) ==
  IF PhysicalLayer_init(rate, delay) # "none" THEN PhysicalLayer_init(rate, delay)
  ELSE IF protocol = "GoBackN" THEN "TypeError"
  ELSE "none"

\* self._machines[machine_id] = machine: a new key goes last, a key that exists
\* keeps its place
Registry_set(registry, machine_id) ==
  IF \E i \in DOMAIN registry : registry[i] = machine_id THEN registry
  ELSE Append(registry, machine_id)

\* Simulator.add_machine, called by the drivers before start_simulation.  The
\* machine is put into the registry before set_simulator is called on its
\* protocol object, and PARProtocol has no set_simulator.
add_machine(machine_id, rate, delay) ==
  /\ ~running
  /\ LET raised == IF Machine_init(rate, delay) # "none"
                   THEN Machine_init(rate, delay)
                   ELSE IF protocol = "PAR" THEN "AttributeError" ELSE "none"
     IN /\ result' = [op |-> "add_machine", from |-> machine_id, to |-> "",
                      error_rate |-> rate, transmission_delay |-> delay,
                      value |-> raised, tick |-> 1 - result.tick]
        /\ IF Machine_init(rate, delay) = "none"
           THEN /\ machines' = Registry_set(machines, machine_id)
                /\ error_rate' = [error_rate EXCEPT ![machine_id] = rate]
                /\ transmission_delay' =
                     [transmission_delay EXCEPT ![machine_id] = delay]
                /\ pending_data' = [pending_data EXCEPT ![machine_id] = <<>>]
                /\ received_packets' = [received_packets EXCEPT ![machine_id] = <<>>]
                /\ active_timeout_id' = [active_timeout_id EXCEPT ![machine_id] = 0]
                /\ pstate' = [pstate EXCEPT ![machine_id] =
                                Protocol_InitState(protocol, window_size)]
           ELSE UNCHANGED <<machines, error_rate, transmission_delay, pending_data,
                            received_packets, active_timeout_id, pstate>>
  /\ UNCHANGED <<protocol, window_size, current_time, event_queue, submitted,
                 corruptions, last_dispatch, history, running, paused, driver,
                 external, stopped_with, gui, link>>

\* variant: only the sender is looked up
BothRegisteredSenderOnly(from_machine, to_machine) ==
  IsRegistered(from_machine)

\* if from_machine in self._machines and to_machine in self._machines
BothRegistered(from_machine, to_machine) ==
  IsRegistered(from_machine) /\ IsRegistered(to_machine)

\* Simulator.send_data(from_machine, to_machine, data) with any two ids, called
\* between two runs of the loop; the callers do not address a machine to itself
Simulator_send_data_to(from_machine, to_machine) ==
  /\ BetweenInstants
  /\ from_machine # to_machine
  /\ IF BothRegistered(from_machine, to_machine)
     THEN /\ Calls < MaxSends
          /\ Simulator_send_data(from_machine)
     ELSE UNCHANGED <<pending_data, submitted, event_queue>>
  /\ result' = [op |-> "send_data", from |-> from_machine, to |-> to_machine,
                error_rate |-> None, transmission_delay |-> None,
                value |-> IF BothRegistered(from_machine, to_machine)
                          THEN "True" ELSE "False",
                tick |-> 1 - result.tick]
  /\ UNCHANGED <<config, current_time, received_packets, active_timeout_id,
                 pstate, corruptions, last_dispatch, history, machines, running,
                 paused, driver, external, stopped_with, gui, link>>

NextInterface ==
  \/ \E machine_id \in Machines, rate \in RegistrationRates,
        delay \in RegistrationDelays : add_machine(machine_id, rate, delay)
  \/ \E from_machine \in Ids, to_machine \in Ids :
        Simulator_send_data_to(from_machine, to_machine)
  \/ start_simulation
  \/ DispatchNetworkReady
  \/ DispatchFrameArrival
  \/ DispatchCksumErr
  \/ DispatchDeliverPacket
  \/ DispatchSendFrame
  \/ DispatchTimeout

SpecInterface == InitConstructed /\ [][NextInterface]_vars

\* ---- main.py: the driver's loop and the command thread ---------------------------
\* lines 266-292: at the top of a turn, the simulator not being paused, A's
\* payload is submitted if it is due, then B's, before run_simulation is called
MainSendData(from_machine) ==
  /\ driver \in (IF from_machine = "A" THEN {"top"} ELSE {"top", "after_a"})
  /\ ~paused
  /\ DriverTurn(from_machine)
  /\ Calls < MaxPayloads
  /\ Simulator_send_data(from_machine)
  /\ driver' = IF from_machine = "A" THEN "after_a" ELSE "after_b"
  /\ UNCHANGED <<config, current_time, received_packets, active_timeout_id,
                 pstate, corruptions, last_dispatch, history, control, link>>

\* Simulator.pause_simulation, called by the command thread: run_simulation
\* returns at the next test of its loop, or at once if it is called only now,
\* and the driver comes to the top of its loop with the simulator paused
pause_simulation ==
  /\ ~paused
  /\ paused' = TRUE
  /\ driver' = "top"
  /\ UNCHANGED <<config, current_time, event_queue, pending_data, received_packets,
                 active_timeout_id, pstate, submitted, corruptions, last_dispatch,
                 history, machines, running, result, external, stopped_with, gui, link>>

\* Simulator.resume_simulation
resume_simulation ==
  /\ paused
  /\ paused' = FALSE
  /\ UNCHANGED <<config, current_time, event_queue, pending_data, received_packets,
                 active_timeout_id, pstate, submitted, corruptions, last_dispatch,
                 history, machines, running, driver, result, external,
                 stopped_with, gui, link>>

\* the loop of main.py with nobody at the keyboard
NextUninterrupted ==
  \/ \E from_machine \in Machines : MainSendData(from_machine)
  \/ DispatchNetworkReady
  \/ DispatchFrameArrival
  \/ DispatchCksumErr
  \/ DispatchDeliverPacket
  \/ DispatchSendFrame
  \/ DispatchTimeout

SpecUninterrupted == Init /\ [][NextUninterrupted]_vars

NextPause ==
  \/ NextUninterrupted
  \/ pause_simulation
  \/ resume_simulation

SpecPause == Init /\ [][NextPause]_vars

\* ---- gui.py: the wall-clock-paced driver ---------------------------------------------
\* Machine.handle_event(event, simulator) with the clock at now
Machine_handle_event(event, now) ==
  CASE event.event_type = "NETWORK_LAYER_READY" -> HandleNetworkReady(event, now)
    [] event.event_type = "FRAME_ARRIVAL" -> HandleFrameArrival(event, now)
    [] event.event_type = "CKSUM_ERR" -> HandleCksumErr(event, now)
    [] event.event_type = "DELIVER_PACKET" -> HandleDeliverPacket(event, now)
    [] event.event_type = "SEND_FRAME" -> HandleSendFrame(event, now)
    [] event.event_type = "TIMEOUT" -> HandleTimeout(event, now)
    [] OTHER -> HandleUnrecognised(event, now)

\* time.sleep(0.05) returns after the time asked for or later; with the rest of a
\* turn of the loop it is counted as one unit of the model's time
SleepTenths == {1}

GuiUnchanged == <<machines, running, result, external, stopped_with, driver>>

\* _toggle_pause on the UI thread: pause_simulation or resume_simulation, then
\* self.paused
GuiTogglePause ==
  /\ gui' = [gui EXCEPT !.paused = ~gui.paused]
  /\ paused' = ~gui.paused
  /\ UNCHANGED <<config, current_time, event_queue, pending_data, received_packets,
                 active_timeout_id, pstate, submitted, corruptions, last_dispatch,
                 history, GuiUnchanged, link>>

\* the loop's first test of self.paused (lines 618-620 and 649-652)
GuiLoopTop ==
  /\ gui.pc = "top"
  /\ gui' = IF ~gui.paused
            THEN [gui EXCEPT !.real_time = gui.wall - gui.total_paused_time,
                             !.pc = "send_a"]
            ELSE [gui EXCEPT !.last_pause_time =
                               IF @ = None THEN gui.wall ELSE @,
                             !.pc = "check"]
  /\ UNCHANGED <<config, current_time, event_queue, pending_data, received_packets,
                 active_timeout_id, pstate, submitted, corruptions, last_dispatch,
                 history, paused, GuiUnchanged, link>>

\* lines 622-632: A's payload when its send time has come
GuiSendA ==
  /\ gui.pc = "send_a"
  /\ IF ~gui.paused /\ gui.real_time >= gui.next_send_time_a
     THEN /\ Simulator_send_data("A")
          /\ gui' = [gui EXCEPT !.next_send_time_a = gui.real_time + DefaultInterval,
                                !.pc = "send_b"]
     ELSE /\ gui' = [gui EXCEPT !.pc = "send_b"]
          /\ UNCHANGED <<event_queue, pending_data, submitted>>
  /\ UNCHANGED <<config, current_time, received_packets, active_timeout_id, pstate,
                 corruptions, last_dispatch, history, paused, GuiUnchanged, link>>

\* lines 634-644: B's payload, for a bidirectional protocol
GuiSendB ==
  /\ gui.pc = "send_b"
  /\ IF ~gui.paused /\ is_bidirectional(protocol)
        /\ gui.real_time >= gui.next_send_time_b
     THEN /\ Simulator_send_data("B")
          /\ gui' = [gui EXCEPT !.next_send_time_b = gui.real_time + DefaultInterval,
                                !.pc = "step"]
     ELSE /\ gui' = [gui EXCEPT !.pc = "step"]
          /\ UNCHANGED <<event_queue, pending_data, submitted>>
  /\ UNCHANGED <<config, current_time, received_packets, active_timeout_id, pstate,
                 corruptions, last_dispatch, history, paused, GuiUnchanged, link>>

\* run_simulation_step(real_time) goes on with an event: running, not paused, and
\* the first event's time has come
StepContinues ==
  /\ running /\ ~paused
  /\ event_queue # <<>>
  /\ peek_next_event(event_queue).timestamp <= gui.real_time

\* run_simulation_step, one turn of its loop: the clock is set to real_time
GuiStepDispatch ==
  /\ gui.pc = "step"
  /\ ~gui.paused
  /\ StepContinues
  /\ current_time' = gui.real_time
  /\ Machine_handle_event(Popped.event, gui.real_time)
  /\ UNCHANGED <<config, submitted, paused, gui, GuiUnchanged>>

\* run_simulation_step is not called, or returns
GuiStepReturns ==
  /\ gui.pc = "step"
  /\ gui.paused \/ ~StepContinues
  /\ gui' = [gui EXCEPT !.pc = "check"]
  /\ UNCHANGED <<config, current_time, event_queue, pending_data, received_packets,
                 active_timeout_id, pstate, submitted, corruptions, last_dispatch,
                 history, paused, GuiUnchanged, link>>

\* lines 654-658: the time spent paused is added up once the pause is over
GuiCheck ==
  /\ gui.pc = "check"
  /\ gui' = IF ~gui.paused /\ gui.last_pause_time # None
            THEN [gui EXCEPT !.total_paused_time = @ + (gui.wall - gui.last_pause_time),
                             !.last_pause_time = None,
                             !.pc = "sleep"]
            ELSE [gui EXCEPT !.pc = "sleep"]
  /\ UNCHANGED <<config, current_time, event_queue, pending_data, received_packets,
                 active_timeout_id, pstate, submitted, corruptions, last_dispatch,
                 history, paused, GuiUnchanged, link>>

\* line 660: time.sleep; the wall clock goes on
GuiSleep ==
  /\ gui.pc = "sleep"
  /\ \E d \in SleepTenths :
       /\ gui.wall + d <= MaxWall
       /\ gui' = [gui EXCEPT !.wall = @ + d,
                             !.unpaused = IF gui.paused THEN @ ELSE @ + d,
                             !.pc = "top"]
  /\ UNCHANGED <<config, current_time, event_queue, pending_data, received_packets,
                 active_timeout_id, pstate, submitted, corruptions, last_dispatch,
                 history, paused, GuiUnchanged, link>>

NextGUI ==
  \/ GuiTogglePause
  \/ GuiLoopTop
  \/ GuiSendA
  \/ GuiSendB
  \/ GuiStepDispatch
  \/ GuiStepReturns
  \/ GuiCheck
  \/ GuiSleep

SpecGUI == Init /\ [][NextGUI]_vars

\* ---- properties -------------------------------------------------------------------
IsPrefix(s, t) == Len(s) <= Len(t) /\ SubSeq(t, 1, Len(s)) = s

Drained == event_queue = <<>>

C2_EventuallyDelivered ==
  (protocol \in {"PAR", "SlidingWindow", "GoBackN", "SelectiveRepeat"} /\ Drained)
    => \A m \in Machines : received_packets[Peer(m)] = submitted[m]

\* C3: with error_rate = 0 on both machines, once the event queue has drained the
\* delivered list equals the submitted list in both directions.
C3_CleanChannelDelivers ==
  ((\A m \in Machines : error_rate[m] = 0) /\ Drained)
    => \A m \in Machines : received_packets[Peer(m)] = submitted[m]

\* a step of run_simulation that takes a TIMEOUT event from the queue
TimeoutStep ==
  /\ event_queue # <<>>
  /\ Popped.event.event_type = "TIMEOUT"
  /\ submitted' = submitted
  /\ last_dispatch'.event = Popped.event

IsTimeout(e) == e.event_type = "TIMEOUT"

\* a step of run_simulation that takes a SEND_FRAME event from the queue
SendFrameStep ==
  /\ event_queue # <<>>
  /\ Popped.event.event_type = "SEND_FRAME"
  /\ submitted' = submitted
  /\ last_dispatch'.event = Popped.event

\* C4: on an epoch-timer machine a TIMEOUT reaches the timeout handler only if its
\* arming has not reached it before and no start or stop of the timer was called
\* since that arming.
C4_EpochTimerFiresOncePerArming ==
  [][(protocol \in {"PAR", "SlidingWindow", "GoBackN"} /\ TimeoutStep
      /\ last_dispatch'.invoked)
     => LET m == Popped.event.machine_id
            id == Machine_timeout_id(Popped.event)
        IN /\ id \notin fired[m]
           /\ id \in DOMAIN armed[m]
           /\ armed[m][id] = timer_calls[m]]_vars

\* an arming fired after an earlier arming of the same machine had been cancelled
C4_Witness ==
  /\ protocol \in {"SlidingWindow", "GoBackN"}
  /\ last_dispatch.event.event_type = "TIMEOUT"
  /\ last_dispatch.invoked
  /\ LET m == last_dispatch.event.machine_id
     IN \E k \in DOMAIN armed[m] :
          k < last_dispatch.event.data.timeout_id /\ k \notin fired[m]

\* the TIMEOUT event's epoch is not the machine's current one, or (Selective
\* Repeat) its timer id is not among the protocol's live timers
Stale(event, m) ==
  IF protocol = "SelectiveRepeat"
  THEN \/ "timer_id" \notin DOMAIN event.data
       \/ event.data.timer_id \notin DOMAIN pstate[m].active_timers
  ELSE \/ "timeout_id" \notin DOMAIN event.data
       \/ event.data.timeout_id # active_timeout_id[m]

\* C5: dispatching a stale TIMEOUT only removes that event: protocol state, network
\* layers, timer epoch are unchanged and nothing is scheduled or sent.
C5_StaleTimeoutHasNoEffect ==
  [][(TimeoutStep /\ Stale(Popped.event, Popped.event.machine_id))
     => /\ pstate' = pstate
        /\ pending_data' = pending_data
        /\ received_packets' = received_packets
        /\ active_timeout_id' = active_timeout_id
        /\ event_queue' = Popped.heap
        /\ last_dispatch'.scheduled = <<>>]_vars

\* a TIMEOUT of a cancelled arming has just been dispatched
C5_Witness ==
  /\ last_dispatch.event.event_type = "TIMEOUT"
  /\ ~last_dispatch.invoked
  /\ "timeout_id" \in DOMAIN last_dispatch.event.data
  /\ last_dispatch.event.data.timeout_id
       < active_timeout_id[last_dispatch.event.machine_id]

\* C6: Selective Repeat, when the TIMEOUT of a live per-frame timer of an outstanding
\* frame is dispatched: exactly that frame is sent again and a timer with a new id
\* is armed for it.
C6_SelectiveRepeatRetransmitsOneFrame ==
  [][(protocol = "SelectiveRepeat" /\ TimeoutStep
      /\ "timer_id" \in DOMAIN Popped.event.data
      /\ Popped.event.data.timer_id
           \in DOMAIN pstate[Popped.event.machine_id].active_timers
      /\ pstate[Popped.event.machine_id].active_timers[Popped.event.data.timer_id]
           \in DOMAIN pstate[Popped.event.machine_id].send_window)
     => LET m == Popped.event.machine_id
            st == pstate[m]
            seq_num == st.active_timers[Popped.event.data.timer_id]
            sends == SelectSeq(last_dispatch'.scheduled, IsSendFrame)
            timers == SelectSeq(last_dispatch'.scheduled, IsTimeout)
        IN /\ Len(sends) = 1
           /\ sends[1].data.frame = st.send_window[seq_num].frame
           /\ Len(timers) = 1
           /\ timers[1].data.timer_id \notin DOMAIN st.active_timers
           /\ pstate'[m].active_timers[timers[1].data.timer_id] = seq_num]_vars

C8_GoBackNWindowBound ==
  protocol = "GoBackN"
    => \A m \in Machines : Cardinality(DOMAIN pstate[m].buffer) <= window_size

Taken(m) == Len(submitted[m]) - Len(pending_data[m])

\* C10: Stop-and-Wait and PAR: the payloads taken by a sender exceed the ACKs it
\* accepted by at most one, and a payload is taken only while waiting_for_ack is
\* false.
C10_AtMostOneUnacknowledged ==
  [][(protocol \in {"StopAndWait", "PAR"})
     => \A m \in Machines :
          /\ Taken(m)' - acked'[m] <= 1
          /\ (Len(pending_data'[m]) < Len(pending_data[m]))
               => (pstate[m].waiting_for_ack = FALSE)]_vars

\* the second frame is outstanding, the first was acknowledged, a third payload waits
C10_Witness ==
  /\ protocol \in {"StopAndWait", "PAR"}
  /\ \E m \in Machines :
       /\ acked[m] >= 1
       /\ Taken(m) = acked[m] + 1
       /\ pstate[m].waiting_for_ack
       /\ pending_data[m] # <<>>

\* C11: PAR with every frame corrupted: a TIMEOUT at a sender that waits for an
\* acknowledgement sends DATA(seq, 0, last_packet) again and arms a new TIMEOUT;
\* nothing is delivered and at most one payload per sender is taken.
C11_PARRetransmitsOnEveryTimeout ==
  [][(protocol = "PAR" /\ (\A m \in Machines : error_rate[m] = 100))
     => /\ \A m \in Machines : received_packets'[m] = <<>> /\ Taken(m)' <= 1
        /\ (TimeoutStep /\ pstate[Popped.event.machine_id].waiting_for_ack)
             => LET m == Popped.event.machine_id
                    frame == pstate[m].last_frame_sent
                IN /\ frame.type = "DATA" /\ frame.seq_num = pstate[m].seq_num
                   /\ \E i \in DOMAIN last_dispatch'.scheduled :
                        LET e == last_dispatch'.scheduled[i]
                        IN e.event_type = "SEND_FRAME" /\ e.data.frame = frame
                   /\ \E i \in DOMAIN last_dispatch'.scheduled :
                        last_dispatch'.scheduled[i].event_type = "TIMEOUT"]_vars

\* a step of the loop of run_simulation: an event is taken from the queue and handled
DispatchStep ==
  /\ event_queue # <<>>
  /\ last_dispatch'.event = Popped.event
  /\ submitted' = submitted
  /\ external' = external
  /\ paused' = paused
  /\ running' = running

\* C12: dispatching an event sets the clock to the larger of the clock and the
\* event's timestamp, and the clock never decreases over any sequence of
\* schedule_event, send_data and run_simulation calls.
C12_ClockNeverDecreases ==
  [][/\ DispatchStep => current_time' = Max(current_time, Popped.event.timestamp)
     /\ current_time' >= current_time]_vars

\* the event get_next_event returns is not later than any event still pending
MinimumFirst ==
  event_queue # <<>>
    => \A i \in DOMAIN event_queue : ~Event_lt(event_queue[i], Popped.event)

\* C13: get_next_event never returns an event while an event with a strictly
\* smaller timestamp is pending, and with events scheduled by the core only, each
\* event dispatched has a timestamp not smaller than that of the one before.
C13_DispatchInTimestampOrder ==
  /\ []MinimumFirst
  /\ [][(DispatchStep /\ last_dispatch.event # NoEvent)
        => Popped.event.timestamp >= last_dispatch.event.timestamp]_vars

\* after an earlier dispatch, three or more events are pending and the list that
\* holds the heap is not in timestamp order
C13_Witness ==
  /\ last_dispatch.event # NoEvent
  /\ Len(event_queue) >= 3
  /\ \E i, j \in DOMAIN event_queue :
       i < j /\ event_queue[j].timestamp < event_queue[i].timestamp

\* C14: among pending events with equal timestamps the one scheduled first is
\* dispatched first; for the events a caller numbered, get_next_event returns the
\* lowest number among those with its timestamp.
C14_FIFOTieBreak ==
  (event_queue # <<>> /\ Popped.event.event_type = "ACK_TIMEOUT")
    => \A i \in DOMAIN event_queue :
         (/\ event_queue[i].event_type = "ACK_TIMEOUT"
          /\ event_queue[i].timestamp = Popped.event.timestamp)
           => Popped.event.data.serial <= event_queue[i].data.serial

\* the loop takes a new reading of the elapsed time
GuiReading == gui.pc = "top" /\ gui'.pc = "send_a"

\* the loop notices a change of self.paused up to one sleep late, at the start
\* and at the end of a pause
GuiSlack == 2

\* C15: the elapsed time handed to run_simulation_step leaves out the time spent
\* paused: from one reading to the next it does not decrease and it does not run
\* ahead of the unpaused time; the clock set from it does not decrease, and no
\* event is dispatched before its timestamp in unpaused time.
C15_ElapsedExcludesPauses ==
  [][/\ GuiReading => /\ gui'.real_time >= gui.real_time
                      /\ gui'.real_time <= gui'.unpaused + GuiSlack
     /\ current_time' >= current_time
     /\ (gui' = gui /\ event_queue # <<>>)
          => Popped.event.timestamp <= gui.unpaused + GuiSlack]_vars

\* what every run of the driver without pauses delivers: it submits a payload only
\* once run_simulation has returned, and each receiver's list is a prefix of the
\* list its peer submitted (an invariant of SpecUninterrupted)
UninterruptedOutcome ==
  \A m \in Machines :
    /\ Len(received_packets[Peer(m)]) <= Len(submitted[m])
    /\ \A i \in DOMAIN received_packets[Peer(m)] :
         received_packets[Peer(m)][i] = submitted[m][i]

PendingAtStop(e) == \E i \in DOMAIN stopped_with.events : stopped_with.events[i] = e

\* C17: stop_simulation marks the simulator halted and leaves no event in the
\* queue, and no event that was pending at the stop is dispatched afterwards, also
\* not after start_simulation.
C17_StopDiscardsPendingEvents ==
  [][/\ (running /\ ~running') => event_queue' = <<>>
     /\ DispatchStep => ~PendingAtStop(Popped.event)]_vars

\* C18: the frame of a dispatched CKSUM_ERR event has its corrupted flag set and
\* the frame of a dispatched FRAME_ARRIVAL event has it clear.
C18_CorruptedFlagConsistent ==
  /\ last_dispatch.event.event_type = "CKSUM_ERR"
       => last_dispatch.event.data.corrupted
  /\ last_dispatch.event.event_type = "FRAME_ARRIVAL"
       => ~last_dispatch.event.data.corrupted

\* a call of add_machine has just returned or raised
AddMachineStep == result'.tick # result.tick /\ result'.op = "add_machine"

\* what the interface rules out: an error rate outside [0,1], a negative delay,
\* or, for the protocols that have a window, a size outside [2,8]
InvalidRegistration(rate, delay) ==
  \/ rate < 0 \/ rate > 100
  \/ delay < 0
  \/ /\ protocol \in {"GoBackN", "SelectiveRepeat"}
     /\ window_size < MinWindow \/ window_size > MaxAllowedWindow

\* C19: add_machine with an error rate outside [0,1], a negative delay or a window
\* size outside [2,8] raises an error and leaves the registry and the machines
\* in it as they were.
C19_InvalidRegistrationFails ==
  [][(AddMachineStep
      /\ InvalidRegistration(result'.error_rate, result'.transmission_delay))
     => /\ result'.value # "none"
        /\ machines' = machines
        /\ UNCHANGED <<error_rate, transmission_delay, pending_data,
                       received_packets, active_timeout_id, pstate>>]_vars

\* a call of send_data has just returned
SendDataStep == result'.tick # result.tick /\ result'.op = "send_data"

\* how often e occurs in the sequence
Count(seq, e) == Cardinality({i \in DOMAIN seq : seq[i] = e})

\* the queue after holds the events of the queue before and one more, e
OneMoreEvent(before, after, e) ==
  /\ Len(after) = Len(before) + 1
  /\ \A i \in DOMAIN after :
       Count(after, after[i]) = Count(before, after[i])
                                + (IF after[i] = e THEN 1 ELSE 0)
  /\ Count(after, e) >= 1

\* everything but the value handed back
allButResult ==
  <<protocol, window_size, error_rate, transmission_delay, current_time,
    event_queue, pending_data, received_packets, active_timeout_id, pstate,
    submitted, corruptions, last_dispatch, history, machines, running, paused,
    external, stopped_with, gui>>

\* C20: send_data gives False when from or to is not registered and then changes
\* nothing; when both are registered it gives True, puts the payload at the tail of
\* the sender's pending data and schedules exactly one NETWORK_LAYER_READY event
\* for the sender.
C20_SendDataKnownEndpoints ==
  [][SendDataStep
     => LET from_machine == result'.from
            to_machine == result'.to
        IN IF IsRegistered(from_machine) /\ IsRegistered(to_machine)
           THEN /\ result'.value = "True"
                /\ Len(pending_data'[from_machine])
                     = Len(pending_data[from_machine]) + 1
                /\ IsPrefix(pending_data[from_machine], pending_data'[from_machine])
                /\ LET message == pending_data'[from_machine]
                                    [Len(pending_data'[from_machine])]
                   IN /\ message.destination = to_machine
                      /\ submitted'[from_machine]
                           = Append(submitted[from_machine], message.data)
                /\ \A m \in Machines \ {from_machine} :
                     pending_data'[m] = pending_data[m]
                /\ \E i \in DOMAIN event_queue' :
                     /\ event_queue'[i].event_type = "NETWORK_LAYER_READY"
                     /\ event_queue'[i].machine_id = from_machine
                     /\ OneMoreEvent(event_queue, event_queue', event_queue'[i])
           ELSE /\ result'.value = "False"
                /\ UNCHANGED allButResult]_vars

\* a call with an unregistered receiver was turned down after payloads were
\* accepted and events dispatched
C20_Witness ==
  /\ result.op = "send_data"
  /\ result.value = "False"
  /\ IsRegistered(result.from)
  /\ ~IsRegistered(result.to)
  /\ submitted.A # <<>>
  /\ current_time > 0
  /\ event_queue # <<>>

\* C21: dispatching an event whose machine is not registered changes no machine's
\* state, schedules nothing and stops nothing: the simulator stays running, and
\* the loop of run_simulation goes on as long as events are left.
C21_UnknownTargetDropped ==
  [][(DispatchStep /\ ~IsRegistered(Popped.event.machine_id))
     => /\ UNCHANGED <<pstate, pending_data, received_packets, active_timeout_id,
                       history, machines>>
        /\ event_queue' = Popped.heap
        /\ running' /\ ~paused'
        /\ driver' = IF event_queue' = <<>> THEN "top" ELSE "run"]_vars

\* an event for "C" was dropped in the middle of a run and events are left
C21_Witness ==
  /\ last_dispatch.event.machine_id = "C"
  /\ event_queue # <<>>
  /\ driver = "run"
  /\ submitted.A # <<>>
  /\ current_time > 0

\* a SEND_FRAME event is being carried out by machine m's physical layer
SendFrameDispatched(m) ==
  /\ DispatchStep
  /\ Popped.event.event_type = "SEND_FRAME"
  /\ Popped.event.machine_id = m

\* C22: while a machine's physical layer is paused its send_frame schedules no
\* event, tells the observer nothing and counts nothing; pausing and resuming leave
\* the pending events alone, frames that arrive at a paused machine are still
\* handed to its protocol; and a physical layer that is not paused (again)
\* schedules the arrival of every frame it is given.
C22_PausedChannelDropsFrames ==
  [][/\ \A m \in Machines :
          SendFrameDispatched(m)
            => IF channel[m].is_paused
               THEN /\ event_queue' = Popped.heap
                    /\ last_dispatch'.scheduled = <<>>
                    /\ observer' = observer
                    /\ channel'[m].frames_sent = channel[m].frames_sent
               ELSE /\ Len(last_dispatch'.scheduled) = 1
                    /\ last_dispatch'.scheduled[1].event_type
                         \in {"FRAME_ARRIVAL", "CKSUM_ERR"}
                    /\ last_dispatch'.scheduled[1].machine_id
                         = Popped.event.data.destination
                    /\ event_queue' = schedule_event(Popped.heap,
                                                     last_dispatch'.scheduled[1])
                    /\ channel'[m].frames_sent = channel[m].frames_sent + 1
                    /\ observer'.packet_sent = observer.packet_sent + 1
     /\ (\E m \in Machines : channel'[m].is_paused # channel[m].is_paused)
          => event_queue' = event_queue
     /\ (DispatchStep /\ Popped.event.event_type = "FRAME_ARRIVAL"
         /\ channel[Popped.event.machine_id].is_paused)
          => /\ last_dispatch'.invoked
             /\ event_queue' # event_queue]_vars

\* a physical layer that refused a frame while paused has been resumed and has
\* just sent a frame, after whose scheduling events are pending
C22_Witness ==
  /\ last_dispatch.event.event_type = "SEND_FRAME"
  /\ last_dispatch.scheduled # <<>>
  /\ ~channel[last_dispatch.event.machine_id].is_paused
  /\ channel[last_dispatch.event.machine_id].refused >= 1
  /\ channel[last_dispatch.event.machine_id].frames_sent >= 1
  /\ observer.packet_sent >= 1

\* C23: with an observer set, it was told packet_sent once for every frame a
\* physical layer accepted and packet_delivered once for every packet appended to
\* a machine's received list.
C23_ObserverToldOfEveryPacket ==
  observer.gui_callback
    => /\ observer.packet_sent = channel.A.frames_sent + channel.B.frames_sent
       /\ observer.packet_delivered
            = Len(received_packets.A) + Len(received_packets.B)

\* a step of run_simulation that hands an uncorrupted frame to a machine
FrameArrivalStep ==
  /\ DispatchStep
  /\ Popped.event.event_type = "FRAME_ARRIVAL"

\* the frame is a DATA frame whose piggybacked acknowledgement answers the frame
\* machine m is waiting on
AnswersOutstanding(m, frame) ==
  /\ frame.type = "DATA"
  /\ pstate[m].waiting_for_ack
  /\ frame.ack_num = pstate[m].next_frame_to_send

\* C24: 1-bit Sliding Window, a DATA frame arrives whose ack_num equals
\* next_frame_to_send while the endpoint waits for an acknowledgement: the endpoint
\* stops its timer, flips next_frame_to_send, clears waiting_for_ack and re-enables
\* the network layer, so a payload already queued there is sent without a further
\* send_data call.
C24_PiggybackedAckReleasesSender ==
  [][(protocol = "SlidingWindow" /\ FrameArrivalStep
      /\ AnswersOutstanding(Popped.event.machine_id, Popped.event.data))
     => LET m == Popped.event.machine_id
        IN /\ ~pstate'[m].waiting_for_ack
           /\ pstate'[m].next_frame_to_send = 1 - pstate[m].next_frame_to_send
           /\ active_timeout_id'[m] = active_timeout_id[m] + 1
           /\ \E i \in DOMAIN last_dispatch'.scheduled :
                LET e == last_dispatch'.scheduled[i]
                IN e.event_type = "NETWORK_LAYER_READY" /\ e.machine_id = m]_vars

\* the sequence numbers from a up to and including b, modulo MAX_SEQ + 1
GoBackN_upto(a, b) ==
  {(a + i) % (MAX_SEQ + 1) : i \in 0..((b - a + MAX_SEQ + 1) % (MAX_SEQ + 1))}

\* C25: Go-Back-N, a pure ACK a arrives at a sender. With a inside
\* [ack_expected, next_frame_to_send) modulo MAX_SEQ + 1 every buffered frame from
\* ack_expected up to a is removed and ack_expected becomes a + 1; the timer is
\* stopped when nothing remains outstanding and started again otherwise. With a
\* outside that range the buffer and ack_expected do not change.
C25_GoBackNCumulativeAck ==
  [][(protocol = "GoBackN" /\ FrameArrivalStep /\ Popped.event.data.type = "ACK")
     => LET m == Popped.event.machine_id
            st == pstate[m]
            a == Popped.event.data.ack_num
            timers == SelectSeq(last_dispatch'.scheduled, IsArming)
        IN IF GoBackN_between(st.ack_expected, a, st.next_frame_to_send)
           THEN /\ DOMAIN pstate'[m].buffer
                     = DOMAIN st.buffer \ GoBackN_upto(st.ack_expected, a)
                /\ pstate'[m].ack_expected = GoBackN_inc(a)
                /\ active_timeout_id'[m] > active_timeout_id[m]
                /\ IF DOMAIN pstate'[m].buffer = {}
                   THEN timers = <<>>
                   ELSE /\ Len(timers) = 1
                        /\ timers[1].data.timeout_id = active_timeout_id'[m]
           ELSE /\ pstate'[m].buffer = st.buffer
                /\ pstate'[m].ack_expected = st.ack_expected]_vars

\* C26: PAR receiver, a valid DATA frame whose seq_num is not expected_seq (a
\* duplicate): nothing is delivered, expected_seq does not change, and the answer
\* is the frame ACK(0, 1 - expected_seq), the acknowledgement of the last frame
\* delivered.
C26_PARDuplicateAcknowledged ==
  [][(protocol = "PAR" /\ FrameArrivalStep /\ Popped.event.data.type = "DATA"
      /\ Popped.event.data.seq_num # pstate[Popped.event.machine_id].expected_seq)
     => LET m == Popped.event.machine_id
            sends == SelectSeq(last_dispatch'.scheduled, IsSendFrame)
        IN /\ pstate'[m].expected_seq = pstate[m].expected_seq
           /\ \A i \in DOMAIN last_dispatch'.scheduled :
                last_dispatch'.scheduled[i].event_type # "DELIVER_PACKET"
           /\ Len(sends) = 1
           /\ sends[1].data.frame = Frame("ACK", 0, 1 - pstate[m].expected_seq, NoPacket)]_vars

\* C27: with no corruption on either channel, whatever the two transmission delays
\* are, a sender's timeout is longer than the round trip of its DATA frame and the
\* returning ACK: no TIMEOUT is dispatched while the machine still has a frame
\* unanswered, and a TIMEOUT never sends a frame again.
C27_TimeoutExceedsRoundTrip ==
  [][((\A m \in Machines : error_rate[m] = 0) /\ TimeoutStep)
     => SelectSeq(last_dispatch'.scheduled, IsSendFrame) = <<>>]_vars

\* the first sequence number from base on, modulo max_seq_num, that is a key of
\* window; next_seq_num when window is empty
OldestUnacknowledged(st, window) ==
  IF DOMAIN window = {} THEN st.next_seq_num
  ELSE LET i == CHOOSE i \in 0..(st.max_seq_num - 1) :
                  /\ (st.send_base + i) % st.max_seq_num \in DOMAIN window
                  /\ \A j \in 0..(i - 1) :
                       (st.send_base + j) % st.max_seq_num \notin DOMAIN window
       IN (st.send_base + i) % st.max_seq_num

\* C28: Selective Repeat sender, an ACK a arrives for a frame of the send window:
\* the frame's timer is cancelled and the frame leaves the window, send_base is
\* then the oldest sequence number still unacknowledged (next_seq_num when none
\* is), and the network layer is enabled again, also when a is not send_base.
C28_SelectiveRepeatAckReleasesWindow ==
  [][(protocol = "SelectiveRepeat" /\ FrameArrivalStep
      /\ Popped.event.data.type = "ACK"
      /\ Popped.event.data.ack_num
           \in DOMAIN pstate[Popped.event.machine_id].send_window)
     => LET m == Popped.event.machine_id
            st == pstate[m]
            a == Popped.event.data.ack_num
        IN /\ st.send_window[a].timer_id \notin DOMAIN pstate'[m].active_timers
           /\ DOMAIN pstate'[m].send_window = DOMAIN st.send_window \ {a}
           /\ pstate'[m].send_base = OldestUnacknowledged(st, pstate'[m].send_window)
           /\ \E i \in DOMAIN last_dispatch'.scheduled :
                LET e == last_dispatch'.scheduled[i]
                IN e.event_type = "NETWORK_LAYER_READY" /\ e.machine_id = m]_vars

IsDeliverPacket(e) == e.event_type = "DELIVER_PACKET"

\* a valid DATA frame arrives at a Selective Repeat machine
SelectiveRepeatDataStep ==
  /\ protocol = "SelectiveRepeat"
  /\ FrameArrivalStep
  /\ Popped.event.data.type = "DATA"

\* seq_num is one of the window_size sequence numbers just before rcv_base
JustBeforeWindow(st, seq_num) ==
  \E i \in 1..st.window_size :
    seq_num = (st.rcv_base + st.max_seq_num - i) % st.max_seq_num

\* C29: Selective Repeat receiver, a valid DATA frame arrives whose seq_num lies in
\* the receive window or among the window_size numbers just before it: the frame
\* ACK(0, seq_num) is sent to the machine the DATA frame came from.
C29_SelectiveRepeatIndividualAck ==
  [][(SelectiveRepeatDataStep
      /\ LET st == pstate[Popped.event.machine_id]
             seq_num == Popped.event.data.seq_num
         IN \/ SelectiveRepeat_in_receive_window(st, seq_num)
            \/ JustBeforeWindow(st, seq_num))
     => \E i \in DOMAIN last_dispatch'.scheduled :
          LET e == last_dispatch'.scheduled[i]
          IN /\ e.event_type = "SEND_FRAME"
             /\ e.machine_id = Popped.event.machine_id
             /\ e.data.destination = Peer(Popped.event.machine_id)
             /\ e.data.frame.type = "ACK"
             /\ e.data.frame.seq_num = 0
             /\ e.data.frame.ack_num = Popped.event.data.seq_num]_vars

\* C30: Selective Repeat receiver, a valid DATA frame arrives. Inside the receive
\* window it is buffered unless it is rcv_base; the packets handed to the network
\* layer are the frame at rcv_base and the buffered frames that follow it, in
\* sequence order, and rcv_base advances by one for each of them. Outside the
\* window nothing is handed up or buffered.
C30_SelectiveRepeatInOrderDelivery ==
  [][SelectiveRepeatDataStep
     => LET m == Popped.event.machine_id
            st == pstate[m]
            frame == Popped.event.data
            delivered == SelectSeq(last_dispatch'.scheduled, IsDeliverPacket)
        IN /\ pstate'[m].rcv_base = (st.rcv_base + Len(delivered)) % st.max_seq_num
           /\ \A i \in DOMAIN delivered :
                LET seq == (st.rcv_base + i - 1) % st.max_seq_num
                IN delivered[i].data.packet
                     = IF i = 1 THEN frame.packet ELSE st.receive_window[seq].packet
           /\ IF SelectiveRepeat_in_receive_window(st, frame.seq_num)
              THEN IF frame.seq_num = st.rcv_base
                   THEN Len(delivered) >= 1
                   ELSE /\ delivered = <<>>
                        /\ DOMAIN pstate'[m].receive_window
                             = DOMAIN st.receive_window \cup {frame.seq_num}
              ELSE /\ delivered = <<>>
                   /\ pstate'[m].receive_window = st.receive_window]_vars

\* a step of run_simulation that hands a corrupted frame to a machine
CksumErrStep ==
  /\ DispatchStep
  /\ Popped.event.event_type = "CKSUM_ERR"

\* machine m has sent no frame and has none waiting to be sent, so it has no NAK
\* outstanding
NothingSentBy(m) ==
  /\ channel[m].frames_sent = 0
  /\ channel[m].refused = 0
  /\ \A i \in DOMAIN event_queue :
       ~(event_queue[i].event_type = "SEND_FRAME" /\ event_queue[i].machine_id = m)

\* C31: Selective Repeat receiver, a corrupted frame arrives while no NAK of the
\* receiver is outstanding: a NAK for rcv_base is sent. (With a NAK outstanding
\* none is sent until rcv_base advances; a receiver that has sent nothing at all
\* has none outstanding.)
C31_SelectiveRepeatNakOnCorruption ==
  [][(protocol = "SelectiveRepeat" /\ CksumErrStep
      /\ NothingSentBy(Popped.event.machine_id))
     => \E i \in DOMAIN last_dispatch'.scheduled :
          LET e == last_dispatch'.scheduled[i]
          IN /\ e.event_type = "SEND_FRAME"
             /\ e.machine_id = Popped.event.machine_id
             /\ e.data.frame.type = "NAK"
             /\ e.data.frame.ack_num = pstate[Popped.event.machine_id].rcv_base]_vars

\* ---- GoBackNProtocol._between called on its own -----------------------------------
\* a Go-Back-N simulator on which nothing has been submitted, and three sequence
\* numbers to compare
InitBetween ==
  /\ protocol = "GoBackN"
  /\ window_size = DefaultWindow
  /\ error_rate = [m \in Machines |-> 0]
  /\ transmission_delay = [m \in Machines |-> DefaultDelay]
  /\ current_time = 0
  /\ event_queue = <<>>
  /\ pending_data = [m \in Machines |-> <<>>]
  /\ received_packets = [m \in Machines |-> <<>>]
  /\ active_timeout_id = [m \in Machines |-> 0]
  /\ pstate = [m \in Machines |-> Protocol_InitState(protocol, window_size)]
  /\ submitted = [m \in Machines |-> <<>>]
  /\ corruptions = 0
  /\ last_dispatch = NoDispatch
  /\ handed_up = [m \in Machines |-> <<>>]
  /\ acked = [m \in Machines |-> 0]
  /\ timer_calls = [m \in Machines |-> 0]
  /\ armed = [m \in Machines |-> EmptyDict]
  /\ fired = [m \in Machines |-> {}]
  /\ retransmitted = [m \in Machines |-> <<>>]
  /\ machines = <<"A", "B">>
  /\ running = TRUE
  /\ paused = FALSE
  /\ driver = "top"
  /\ result = NoResult
  /\ external = 0
  /\ stopped_with = [calls |-> 0, events |-> <<>>]
  /\ gui = GuiInit
  /\ channel = ChannelInit
  /\ observer = ObserverInit(FALSE)
  /\ \E a, b, c \in 0..MAX_SEQ :
       probe = [a |-> a, b |-> b, c |-> c, applied |-> FALSE, value |-> FALSE]

\* protocol._between(a, b, c)
CallBetween ==
  /\ ~probe.applied
  /\ probe' = [probe EXCEPT !.applied = TRUE,
                            !.value = GoBackN_between(probe.a, probe.b, probe.c)]
  /\ UNCHANGED <<config, current_time, event_queue, pending_data, received_packets,
                 active_timeout_id, pstate, submitted, corruptions, last_dispatch,
                 history, control, driver, channel, observer>>

NextBetween == CallBetween

SpecBetween == InitBetween /\ [][NextBetween]_vars

\* steps forward from a to b, modulo MAX_SEQ + 1
StepsForward(a, b) == (b - a + MAX_SEQ + 1) % (MAX_SEQ + 1)

\* C32: for all a, b, c in 0..MAX_SEQ, _between(a, b, c) is true exactly when,
\* walking forward from a modulo MAX_SEQ + 1, b is reached strictly before c; for
\* a = c it is false whatever b is.
C32_BetweenIsCircularRange ==
  probe.applied
    => /\ probe.value = (StepsForward(probe.a, probe.b) < StepsForward(probe.a, probe.c))
       /\ probe.a = probe.c => ~probe.value

\* _between has answered True for a range that wraps around MAX_SEQ
C32_Witness ==
  /\ probe.applied
  /\ probe.value
  /\ probe.c < probe.a
  /\ probe.b < probe.c

\* the event is in the queue after the step more often than before it
NewlyScheduled(e) == Count(event_queue', e) > Count(event_queue, e)

\* C33: every event the core schedules (NETWORK_LAYER_READY, FRAME_ARRIVAL,
\* CKSUM_ERR, DELIVER_PACKET, SEND_FRAME, TIMEOUT) has a timestamp at or after the
\* clock's value when it is scheduled, so no machine is handed a frame dated
\* before the event that caused it.
C33_ScheduledNotInThePast ==
  [][\A i \in DOMAIN event_queue' :
       NewlyScheduled(event_queue'[i])
         => event_queue'[i].timestamp >= current_time']_vars

\* a frame has arrived after a TIMEOUT was armed and the arrival itself scheduled
\* events, all of them at or after the clock
C33_Witness ==
  /\ last_dispatch.event.event_type = "FRAME_ARRIVAL"
  /\ last_dispatch.scheduled # <<>>
  /\ last_dispatch.event.timestamp = current_time
  /\ \A i \in DOMAIN last_dispatch.scheduled :
       last_dispatch.scheduled[i].timestamp >= current_time
  /\ \E i \in DOMAIN event_queue :
       event_queue[i].event_type = "TIMEOUT" /\ event_queue[i].timestamp > current_time

\* ---- main.py: the command thread running beside the driver's loop ---------------------
\* One step is one shared-memory access of a thread. The driver is at "run" when
\* it is about to test the condition of run_simulation's while loop and at
\* "handling" once get_next_event has returned an event; that event is kept at
\* the head of event_queue until its handler has run, which no other step can
\* tell, the command thread reading and writing only _paused and _running.

\* variant: the two flags are not tested before the event is taken
LoopTakesEventUntested ==
  /\ driver \in {"top", "after_a", "after_b", "run"}
  /\ event_queue # <<>>
  /\ IsRegistered(Popped.event.machine_id)
  /\ Popped.event.timestamp <= MaxTime
  /\ driver' = "handling"
  /\ UNCHANGED <<config, current_time, event_queue, pending_data, received_packets,
                 active_timeout_id, pstate, submitted, corruptions, last_dispatch,
                 history, control, link>>

\* run_simulation, "while self._running and has_events() and not self._paused"
\* found true, and "event = self.event_scheduler.get_next_event()"
LoopTakesEvent ==
  /\ driver \in {"top", "after_a", "after_b", "run"}
  /\ running /\ ~paused
  /\ event_queue # <<>>
  /\ IsRegistered(Popped.event.machine_id)
  /\ Popped.event.timestamp <= MaxTime
  /\ driver' = "handling"
  /\ UNCHANGED <<config, current_time, event_queue, pending_data, received_packets,
                 active_timeout_id, pstate, submitted, corruptions, last_dispatch,
                 history, control, link>>

\* run_simulation, the condition of the while loop found false: the method
\* returns and the driver is at the top of main.py's loop
LoopReturns ==
  /\ driver = "run"
  /\ ~(running /\ ~paused /\ event_queue # <<>>)
  /\ driver' = "top"
  /\ UNCHANGED <<config, current_time, event_queue, pending_data, received_packets,
                 active_timeout_id, pstate, submitted, corruptions, last_dispatch,
                 history, control, link>>

\* run_simulation, "self._current_time = event.timestamp" and
\* "machine.handle_event(event, self)" for the event taken, whatever the flags
\* have become meanwhile
LoopHandlesEvent ==
  /\ driver = "handling"
  /\ current_time' = Popped.event.timestamp
  /\ \/ /\ Popped.event.event_type = "NETWORK_LAYER_READY"
        /\ HandleNetworkReady(Popped.event, Popped.event.timestamp)
     \/ /\ Popped.event.event_type = "FRAME_ARRIVAL"
        /\ HandleFrameArrival(Popped.event, Popped.event.timestamp)
     \/ /\ Popped.event.event_type = "CKSUM_ERR"
        /\ HandleCksumErr(Popped.event, Popped.event.timestamp)
     \/ /\ Popped.event.event_type = "DELIVER_PACKET"
        /\ HandleDeliverPacket(Popped.event, Popped.event.timestamp)
     \/ /\ Popped.event.event_type = "SEND_FRAME"
        /\ HandleSendFrame(Popped.event, Popped.event.timestamp)
     \/ /\ Popped.event.event_type = "TIMEOUT"
        /\ HandleTimeout(Popped.event, Popped.event.timestamp)
  /\ driver' = "run"
  /\ UNCHANGED <<config, submitted, control>>

\* command_listener, 'p': Simulator.pause_simulation sets _paused
command_pause ==
  /\ ~paused
  /\ paused' = TRUE
  /\ UNCHANGED <<config, current_time, event_queue, pending_data, received_packets,
                 active_timeout_id, pstate, submitted, corruptions, last_dispatch,
                 history, machines, running, driver, result, external,
                 stopped_with, gui, link>>

\* command_listener, 'r': Simulator.resume_simulation clears _paused
command_resume ==
  /\ paused
  /\ paused' = FALSE
  /\ UNCHANGED <<config, current_time, event_queue, pending_data, received_packets,
                 active_timeout_id, pstate, submitted, corruptions, last_dispatch,
                 history, machines, running, driver, result, external,
                 stopped_with, gui, link>>

\* command_listener, 'q': Simulator.stop_simulation clears _running
command_quit == stop_simulation

NextThreads ==
  \/ \E from_machine \in Machines :
       running /\ Calls < MaxSends /\ MainSendData(from_machine)
  \/ LoopTakesEvent
  \/ LoopHandlesEvent
  \/ LoopReturns
  \/ command_pause
  \/ command_resume
  \/ command_quit

SpecThreads == Init /\ [][NextThreads]_vars

\* what the machines and the queue hold
endpoints == <<event_queue, current_time, pending_data, received_packets,
               active_timeout_id, pstate, submitted, last_dispatch>>

\* C34: with the command thread calling pause, resume and quit at any moment of
\* the driver's loop: a call of the command thread changes only the two flags;
\* an event is taken from the queue only while the simulator runs and is not
\* paused; and an event once taken is handled completely by the driver's next
\* step, whatever the flags have become.
C34_HandlersNotInterrupted ==
  [][/\ (paused' # paused \/ running' # running) => UNCHANGED <<endpoints, driver>>
     /\ (driver # "handling" /\ driver' = "handling") => (running /\ ~paused)
     /\ driver = "handling"
          => \/ UNCHANGED <<endpoints, driver>>
             \/ /\ driver' = "run"
                /\ last_dispatch'.event = Popped.event]_vars

\* an event has been taken and the command thread has paused and stopped the
\* simulator before the event's handler ran
C34_Witness ==
  /\ driver = "handling"
  /\ paused
  /\ ~running
  /\ Popped.event.event_type = "FRAME_ARRIVAL"

\* ---- acknowledgements and the endpoint they are addressed to -----------------------
IsAcknowledgement(e) ==
  /\ e.event_type = "SEND_FRAME"
  /\ e.data.frame.type \in {"ACK", "NAK"}

\* C35: every ACK or NAK frame an endpoint emits when a DATA frame arrives is
\* addressed to the other endpoint, the one that sent the DATA frame, whichever of
\* A and B receives; no endpoint addresses an acknowledgement to itself.
C35_AcknowledgementGoesToSender ==
  [][(FrameArrivalStep /\ Popped.event.data.type = "DATA")
     => \A i \in DOMAIN last_dispatch'.scheduled :
          LET e == last_dispatch'.scheduled[i]
          IN IsAcknowledgement(e)
               => /\ e.data.destination = Peer(Popped.event.machine_id)
                  /\ e.data.destination # e.machine_id]_vars

\* ---- the actions _execute_protocol_response has a branch for ----------------------
DataLink_actions ==
  {"send_frame", "send_frame_with_timeout", "deliver_packet",
   "deliver_packet_and_send_ack", "send_nak", "send_ack_only", "continue_sending",
   "stop_timeout_and_continue", "retransmit", "send_multiple_frames",
   "deliver_multiple_packets_and_ack"}

\* branches whose body is "pass"
DataLink_empty_branches == {"retransmit"}

\* C36: every action a protocol handler returns is carried out by the data-link
\* dispatcher: it is 'no_action' or the dispatcher has a branch for its name, and
\* the branch is not an empty one (as for an action that asks for a
\* retransmission, an ACK or a delivery).
C36_EveryReturnedActionCarriedOut ==
  [][(DispatchStep /\ last_dispatch'.invoked)
     => \/ last_dispatch'.response = "no_action"
        \/ /\ last_dispatch'.response \in DataLink_actions
           /\ last_dispatch'.response \notin DataLink_empty_branches]_vars

\* the part of C36 about PAR: a NAK that reaches a sender waiting for its
\* acknowledgement makes the sender transmit again
PARRetransmitsOnNak ==
  [][(protocol = "PAR" /\ FrameArrivalStep /\ Popped.event.data.type = "NAK"
      /\ pstate[Popped.event.machine_id].waiting_for_ack)
     => \E i \in DOMAIN last_dispatch'.scheduled :
          last_dispatch'.scheduled[i].event_type = "SEND_FRAME"]_vars

\* ---- Selective Repeat with acknowledgements arriving in any order ------------------
InitSelective ==
  /\ Init
  /\ protocol = "SelectiveRepeat"

\* no DELIVER_PACKET event is ever scheduled under Selective Repeat, so the loop
\* has none to dispatch
NextSelective ==
  \/ \E from_machine \in Machines : SendData(from_machine)
  \/ \E machine_id \in Machines, frame_type \in ArrivingTypes,
        seq_num \in ArrivingSeqs, timestamp \in ExternalStamps :
       ScheduleArrival(machine_id, frame_type, seq_num, timestamp)
  \/ DispatchNetworkReady
  \/ DispatchFrameArrival
  \/ DispatchCksumErr
  \/ DispatchSendFrame
  \/ DispatchTimeout

SpecSelective == InitSelective /\ [][NextSelective]_vars

\* the sequence numbers handed out and not yet released span at most the window
SelectiveRepeat_within_window(st) ==
  (st.next_seq_num - st.send_base + st.max_seq_num) % st.max_seq_num <= st.window_size

\* C37: Selective Repeat sender: a new frame gets a sequence number only if no
\* unacknowledged frame with that number is still in the send window, and in every
\* state reached (next_seq_num - send_base) mod M <= W.
C37_SelectiveRepeatSendWindowBounded ==
  [][\A m \in Machines :
       /\ (/\ DispatchStep
           /\ Popped.event.event_type = "NETWORK_LAYER_READY"
           /\ Popped.event.machine_id = m
           /\ last_dispatch'.response = "send_frame")
          => pstate[m].next_seq_num \notin DOMAIN pstate[m].send_window
       /\ SelectiveRepeat_within_window(pstate'[m])]_vars

\* ---- the single timer of 1-bit Sliding Window and Go-Back-N -------------------------
\* the sender side of machine m has a frame sent and not acknowledged
HasUnacknowledged(m) ==
  IF protocol = "SlidingWindow" THEN pstate[m].waiting_for_ack
  ELSE IF protocol = "GoBackN" THEN pstate[m].nbuffered > 0
  ELSE FALSE

\* a TIMEOUT event of machine m carrying the current epoch is in the queue
TimerPending(m) ==
  \E i \in DOMAIN event_queue :
    /\ event_queue[i].event_type = "TIMEOUT"
    /\ event_queue[i].machine_id = m
    /\ Machine_timeout_id(event_queue[i]) = active_timeout_id[m]

WindowSends == MAX_SEQ + MaxSends

InitGoBackN ==
  /\ Init
  /\ protocol = "GoBackN"

\* payloads machine m is given: A fills its window and goes on past it, B has one
\* of its own, so that a DATA frame of B carries a piggybacked acknowledgement
Payloads(m) == IF m = "A" THEN WindowSends ELSE 1

\* Simulator.send_data called by a caller that submits its payloads and then
\* runs the loop
SendDataWindow(from_machine) ==
  /\ current_time = 0
  /\ last_dispatch = NoDispatch
  /\ Len(submitted[from_machine]) < Payloads(from_machine)
  /\ Simulator_send_data(from_machine)
  /\ UNCHANGED <<config, current_time, received_packets, active_timeout_id,
                 pstate, corruptions, last_dispatch, history, control, driver, link>>

NextGoBackN ==
  \/ \E from_machine \in Machines : SendDataWindow(from_machine)
  \/ DispatchNetworkReady
  \/ DispatchFrameArrival
  \/ DispatchCksumErr
  \/ DispatchDeliverPacket
  \/ DispatchSendFrame
  \/ DispatchTimeout

SpecGoBackN == InitGoBackN /\ [][NextGoBackN]_vars

\* C39: Go-Back-N sender: in every state 0 <= nbuffered <= MAX_SEQ, nbuffered is
\* the number of entries in buffer, and nbuffered = (next_frame_to_send -
\* ack_expected) mod (MAX_SEQ + 1), across sends, cumulative ACKs (pure and
\* piggybacked) and timeouts.
C39_GoBackNBookkeeping ==
  protocol = "GoBackN"
    => \A m \in Machines :
         LET st == pstate[m]
         IN /\ 0 <= st.nbuffered
            /\ st.nbuffered <= MAX_SEQ
            /\ st.nbuffered = Cardinality(DOMAIN st.buffer)
            /\ st.nbuffered = StepsForward(st.ack_expected, st.next_frame_to_send)

\* A's window has wrapped round the sequence space after an acknowledgement, with
\* payloads that found the window full still waiting
C39_Witness ==
  /\ protocol = "GoBackN"
  /\ pstate.A.next_frame_to_send < pstate.A.ack_expected
  /\ pstate.A.nbuffered > 0
  /\ acked.A > 0

\* the window is full and a payload has been refused
GoBackNWindowFull ==
  /\ protocol = "GoBackN"
  /\ pstate.A.nbuffered = MAX_SEQ
  /\ last_dispatch.event.event_type = "NETWORK_LAYER_READY"
  /\ last_dispatch.event.machine_id = "A"
  /\ last_dispatch.response = "no_action"
  /\ has_data_ready(pending_data.A)

\* the timer has fired and the whole window has been sent again
GoBackNWindowResent ==
  /\ protocol = "GoBackN"
  /\ fired.A # {}
  /\ Len(retransmitted.A) = MAX_SEQ

\* a piggybacked acknowledgement has released frames of B
GoBackNPiggybacked ==
  /\ protocol = "GoBackN"
  /\ last_dispatch.event.event_type = "FRAME_ARRIVAL"
  /\ last_dispatch.event.data.type = "DATA"
  /\ last_dispatch.event.machine_id = "B"
  /\ last_dispatch.response = "deliver_packet_and_send_ack"
  /\ \E i \in DOMAIN last_dispatch.scheduled :
       last_dispatch.scheduled[i].event_type = "NETWORK_LAYER_READY"

\* ---- a finite number of payloads on a channel without corruption ---------------------
InitLossless ==
  /\ Init
  /\ error_rate = [m \in Machines |-> 0]

\* Simulator.send_data called before the loop runs: each machine that sends is
\* given one payload at time 0, so every timer of a run that comes to an end is
\* due before MaxTime
SubmitPayload(from_machine) ==
  /\ current_time = 0
  /\ last_dispatch = NoDispatch
  /\ submitted[from_machine] = <<>>
  /\ from_machine = "A" \/ is_bidirectional(protocol)
  /\ Simulator_send_data(from_machine)
  /\ UNCHANGED <<config, current_time, received_packets, active_timeout_id,
                 pstate, corruptions, last_dispatch, history, control, driver, link>>

\* run_simulation, one turn of its loop; no CKSUM_ERR event is ever scheduled
LoopTurn ==
  \/ DispatchNetworkReady
  \/ DispatchFrameArrival
  \/ DispatchDeliverPacket
  \/ DispatchSendFrame
  \/ DispatchTimeout

NextLossless ==
  \/ \E from_machine \in Machines : SubmitPayload(from_machine)
  \/ LoopTurn

\* the loop of run_simulation goes on as long as the queue holds an event
SpecLossless == InitLossless /\ [][NextLossless]_vars /\ WF_vars(LoopTurn)

\* run_simulation has returned with no event left
Returned == event_queue = <<>> /\ driver = "top"

StaysUnacknowledged ==
  [][HasUnacknowledged("B") => HasUnacknowledged("B")']_vars

StoppedWithLiveTimer ==
  /\ event_queue # <<>>
  /\ Popped.event.timestamp > MaxTime
  /\ HasUnacknowledged("B")
  /\ TimerPending("B")
  /\ retransmitted.B # <<>>


====
